---- MODULE Spec2Model ----
(***************************************************************************)
(* Verification model of the vAPI runtime shipped in the repository:       *)
(*   - vmware/vapi/task/task_manager_impl.py  (Task Manager)               *)
(*   - vmware/vapi/rest/rules.py              (mapping rules, dispatch)    *)
(*   - vmware/vapi/rest/handler.py            (REST dispatcher)            *)
(* Three specifications share the module: SpecTaskManager, SpecRules and   *)
(* SpecRest.  Each one keeps the variables of the others parked.           *)
(***************************************************************************)
EXTENDS Integers, Sequences, FiniteSets, TLC

VARIABLES
    \* ---- Task Manager (TaskManagerImpl) ----
    task_map,          \* self.task_map: task id -> TaskSummary
    tasks_to_remove,   \* self.tasks_to_remove: set of <<task id, timestamp>>
    tasks_to_cancel,   \* self.tasks_to_cancel: set of task ids
    clock,             \* datetime.utcnow(), in seconds
    uuid_count,        \* number of uuid4() values drawn so far
    entered,           \* history: when the stored task entered a terminal status
    last_call,         \* the last Task Manager call and what it returned
    \* ---- REST layer (MetadataStore, RoutingRuleGenerator, RESTHandler) ----
    service_map,       \* MetadataStore.service_map
    all_errors_response_code_map,  \* MetadataStore.all_errors_response_code_map
    response_cookie_builder,       \* RESTHandler.response_cookie_builder
    rest_rules,        \* RESTHandler.rest_rules
    http_request,      \* the last request handled
    response,          \* what the handler answered to it
    context,           \* the execution context of the current thread
    ds_mapping_type,   \* DataValueDeserializer.mapping_type
    served,            \* number of requests handled so far
    \* ---- Task Handle ----
    handle,            \* the TaskHandle of the running provider, or NoneRec
    event,             \* whether the event the task-id waiters block on is set
    publish_call,      \* the last Task Handle call and how it ended
    handle_calls,      \* number of assignments and publish calls made so far
    created_with,      \* per task: the arguments of the create_task that made it
    \* ---- concurrent callers ----
    threads,           \* per thread: the call it is in and where it stands
    lock,              \* the thread holding TaskManagerImpl.lock, or None
    last_write,        \* the last write to the Task Manager's shared state
    task_manager       \* the module global _task_manager and the instances made

tmVars == <<task_map, tasks_to_remove, tasks_to_cancel, clock, uuid_count,
            entered, last_call>>

restVars == <<service_map, all_errors_response_code_map, response_cookie_builder,
              rest_rules, http_request, response, context, ds_mapping_type,
              served>>

thVars == <<handle, event, publish_call, handle_calls, created_with>>

ccVars == <<threads, lock, last_write, task_manager>>

vars == <<tmVars, restVars, thVars, ccVars>>

None == "None"

\* Python's None where a string or a list is expected, where an object is
\* expected, and where an integer is expected
NoneStr == <<"None">>
NoneRec == [none |-> TRUE]
NoneInt == 0 - 1
NoTime == 0 - 1     \* "no timestamp" in the history variable

(***************************************************************************)
(* Bounds of the model                                                     *)
(***************************************************************************)
MaxUuid == 1          \* uuid4() values a behaviour may draw
MaxToRemove == 2      \* entries tasks_to_remove may hold
MaxClockSteps == 2    \* the clock runs up to MaxClockSteps * HalfDay seconds
MaxRequests == 1      \* the handler serves up to MaxRequests requests
MaxHandleCalls == 4   \* assignments and publish calls made through Task Handles

(***************************************************************************)
(* Task Manager: constants                                                 *)
(***************************************************************************)
URI_DELIMITER == ":"
TASK_EXPIRE_DURATION_SEC == 24 * 60 * 60
PENDING == "PENDING"
SUCCEEDED == "SUCCEEDED"
FAILED == "FAILED"

StatusValues == {PENDING, SUCCEEDED, FAILED}
TerminalStatus == {SUCCEEDED, FAILED}

\* Inputs of the Task Manager calls
BaseIds == {"a"}
ServiceIds == {"svc"}
OperationIds == {"op1", "op2"}
ErrorTypeInputs == {<<"not_found">>}
HalfDay == TASK_EXPIRE_DURATION_SEC \div 2
ClockSteps == {HalfDay, HalfDay - 1}

UuidValue(n) == "u" \o ToString(n)

\* TaskManagerImpl._create_task_id
CreateTaskId(base_id, service_id) == base_id \o URI_DELIMITER \o service_id

TaskIds ==
    {CreateTaskId(b, s) : b \in BaseIds \cup {UuidValue(n) : n \in 1..MaxUuid},
                          s \in ServiceIds}

\* a StructValue for the task info, as create_task builds it
NewTaskInfo(service_id, operation_id, cancelable) ==
    [service |-> service_id, operation |-> operation_id,
     cancelable |-> (IF cancelable THEN TRUE ELSE FALSE), status |-> PENDING]

\* TaskSummary.__init__
TaskSummary(info, errors) == [info |-> info, errors |-> errors]

\* infos set_info may be handed
InfoInputs ==
    [service : ServiceIds, operation : OperationIds,
     cancelable : BOOLEAN, status : StatusValues]

\* dict helpers
DictPop(d, k) == [x \in DOMAIN d \ {k} |-> d[x]]
DictSetDefault(d, k, v) == IF k \in DOMAIN d THEN d ELSE (k :> v) @@ d

\* TaskManagerImpl.get_info / get_infos / is_marked_for_cancellation
GetInfo(tm, task_id) == tm[task_id].info
GetInfos(tm) == [k \in DOMAIN tm |-> tm[k].info]
IsMarkedForCancellation(cancel, task_id) == task_id \in cancel

(***************************************************************************)
(* _remove_expired_task: the loop walks a copy of the set tasks_to_remove  *)
(* in the set's iteration order (string hashes are salted per process, so  *)
(* any order can occur) and stops at the first entry younger than 24h.     *)
(***************************************************************************)
IterationOrders(S) ==
    {o \in [1..Cardinality(S) -> S] : \A i, j \in 1..Cardinality(S) : o[i] = o[j] => i = j}

NotExpired(entry, curr_time) == (curr_time - entry[2]) < TASK_EXPIRE_DURATION_SEC

RECURSIVE SweepLoop(_, _, _)
SweepLoop(order, curr_time, st) ==
    IF order = <<>> THEN st
    ELSE IF NotExpired(Head(order), curr_time) THEN st
    ELSE SweepLoop(Tail(order), curr_time,
                   [to_remove |-> st.to_remove \ {Head(order)},
                    map |-> DictPop(st.map, Head(order)[1]),
                    swept |-> st.swept \cup
                        (IF Head(order)[1] \in DOMAIN st.map
                         THEN {[id |-> Head(order)[1],
                                status |-> st.map[Head(order)[1]].info.status,
                                since |-> st.since[Head(order)[1]]]}
                         ELSE {}),
                    since |-> st.since])

RemoveExpiredTask(tm, to_remove, since, curr_time, order) ==
    SweepLoop(order, curr_time,
              [to_remove |-> to_remove, map |-> tm, swept |-> {}, since |-> since])

(***************************************************************************)
(* Task Manager: operations                                                *)
(***************************************************************************)
TMInit ==
    /\ task_map = <<>>
    /\ tasks_to_remove = {}
    /\ tasks_to_cancel = {}
    /\ clock = 0
    /\ uuid_count = 0
    /\ entered = [t \in TaskIds |-> NoTime]
    /\ last_call = [op |-> "init"]
    \* the REST layer takes no part in the Task Manager's behaviours
    /\ service_map = <<>>
    /\ all_errors_response_code_map = <<>>
    /\ response_cookie_builder = NoneRec
    /\ rest_rules = {}
    /\ http_request = NoneRec
    /\ response = NoneRec
    /\ context = NoneRec
    /\ ds_mapping_type = "unset"
    /\ served = 0
    /\ handle = NoneRec
    /\ event = FALSE
    /\ publish_call = [op |-> "init"]
    /\ handle_calls = 0
    /\ created_with = <<>>
    /\ threads = <<>>
    /\ lock = None
    /\ last_write = NoneRec
    /\ task_manager = NoneRec

\* create_task(description, service_id, operation_id, cancelable, error_types, id_)
create_task(service_id, operation_id, cancelable, error_types, id_) ==
    /\ id_ = None => uuid_count < MaxUuid
    /\ LET base_id == IF id_ # None THEN id_ ELSE UuidValue(uuid_count + 1)
           task_id == CreateTaskId(base_id, service_id)
           task_summary == TaskSummary(
               NewTaskInfo(service_id, operation_id, cancelable), error_types)
           existed == task_id \in DOMAIN task_map
           map1 == DictSetDefault(task_map, task_id, task_summary)
           since1 == IF existed THEN entered ELSE [entered EXCEPT ![task_id] = NoTime]
       IN \E order \in IterationOrders(tasks_to_remove) :
            LET r == RemoveExpiredTask(map1, tasks_to_remove, since1, clock, order)
            IN /\ task_map' = r.map
               /\ tasks_to_remove' = r.to_remove
               /\ entered' = [t \in TaskIds |->
                                 IF t \in DOMAIN r.map THEN since1[t] ELSE NoTime]
               /\ last_call' = [op |-> "create_task", service |-> service_id,
                                operation |-> operation_id,
                                cancelable |-> cancelable, existed |-> existed,
                                swept |-> r.swept, ret |-> task_id]
       /\ uuid_count' = IF id_ = None THEN uuid_count + 1 ELSE uuid_count
    /\ UNCHANGED <<tasks_to_cancel, clock>>

\* set_info(task_id, info); a missing task id raises KeyError at the first line
set_info(task_id, info) ==
    IF task_id \notin DOMAIN task_map
    THEN /\ last_call' = [op |-> "set_info", raised |-> "KeyError"]
         /\ UNCHANGED <<task_map, tasks_to_remove, tasks_to_cancel, clock,
                        uuid_count, entered>>
    ELSE /\ info.status \in TerminalStatus =>
                \/ <<task_id, clock>> \in tasks_to_remove
                \/ Cardinality(tasks_to_remove) < MaxToRemove
         /\ task_map' = [task_map EXCEPT ![task_id].info = info]
         /\ IF info.status \in {SUCCEEDED, FAILED}
            THEN /\ tasks_to_remove' = tasks_to_remove \cup {<<task_id, clock>>}
                 /\ tasks_to_cancel' = tasks_to_cancel \ {task_id}
            ELSE UNCHANGED <<tasks_to_remove, tasks_to_cancel>>
         /\ entered' = [entered EXCEPT ![task_id] =
                IF info.status \notin TerminalStatus THEN NoTime
                ELSE IF task_map[task_id].info.status \in TerminalStatus
                     THEN entered[task_id] ELSE clock]
         /\ last_call' = [op |-> "set_info", raised |-> None]
         /\ UNCHANGED <<clock, uuid_count>>

\* remove_task(task_id)
remove_task(task_id) ==
    /\ task_map' = DictPop(task_map, task_id)
    /\ entered' = [entered EXCEPT ![task_id] = NoTime]
    /\ last_call' = [op |-> "remove_task"]
    /\ UNCHANGED <<tasks_to_remove, tasks_to_cancel, clock, uuid_count>>

\* mark_for_cancellation(task_id); get_info raises KeyError for a missing id
mark_for_cancellation(task_id) ==
    IF task_id \notin DOMAIN task_map
    THEN /\ last_call' = [op |-> "mark_for_cancellation", raised |-> "KeyError"]
         /\ UNCHANGED <<task_map, tasks_to_remove, tasks_to_cancel, clock,
                        uuid_count, entered>>
    ELSE /\ LET info == GetInfo(task_map, task_id)
            IN IF info.cancelable = TRUE
               THEN tasks_to_cancel' = tasks_to_cancel \cup {task_id}
               ELSE UNCHANGED tasks_to_cancel
         /\ last_call' = [op |-> "mark_for_cancellation", raised |-> None]
         /\ UNCHANGED <<task_map, tasks_to_remove, clock, uuid_count, entered>>

\* time passes between calls
Tick(d) ==
    /\ clock + d <= MaxClockSteps * HalfDay
    /\ clock' = clock + d
    /\ last_call' = [op |-> "tick"]
    /\ UNCHANGED <<task_map, tasks_to_remove, tasks_to_cancel, uuid_count, entered>>

TMNext ==
    \/ \E s \in ServiceIds, o \in OperationIds, c \in BOOLEAN,
          e \in ErrorTypeInputs, i \in BaseIds \cup {None} :
            create_task(s, o, c, e, i) /\ UNCHANGED <<restVars, thVars, ccVars>>
    \/ \E t \in TaskIds, i \in InfoInputs : set_info(t, i) /\ UNCHANGED <<restVars, thVars, ccVars>>
    \/ \E t \in TaskIds : remove_task(t) /\ UNCHANGED <<restVars, thVars, ccVars>>
    \/ \E t \in TaskIds : mark_for_cancellation(t) /\ UNCHANGED <<restVars, thVars, ccVars>>
    \/ \E d \in ClockSteps : Tick(d) /\ UNCHANGED <<restVars, thVars, ccVars>>

SpecTaskManager == TMInit /\ [][TMNext]_vars

(***************************************************************************)
(* Strings of the REST layer are sequences of one-character strings, so    *)
(* that replace / split / strip / lower act on characters as in the code.  *)
(***************************************************************************)
RECURSIVE Split(_, _)
\* str.split(sep) for a one-character separator
Split(str, sep) ==
    IF \A i \in 1..Len(str) : str[i] # sep THEN <<str>>
    ELSE LET p == CHOOSE i \in 1..Len(str) :
                      str[i] = sep /\ \A j \in 1..(i - 1) : str[j] # sep
         IN <<SubSeq(str, 1, p - 1)>> \o Split(SubSeq(str, p + 1, Len(str)), sep)

\* str.replace(old, new) for one-character old and new
Replace(str, old, new) == [i \in 1..Len(str) |-> IF str[i] = old THEN new ELSE str[i]]

RECURSIVE Strip(_)
\* str.strip()
Strip(str) ==
    IF str = <<>> THEN str
    ELSE IF Head(str) = " " THEN Strip(Tail(str))
    ELSE IF str[Len(str)] = " " THEN Strip(SubSeq(str, 1, Len(str) - 1))
    ELSE str

LowerLetters ==
    <<"a", "b", "c", "d", "e", "f", "g", "h", "i", "j", "k", "l", "m",
      "n", "o", "p", "q", "r", "s", "t", "u", "v", "w", "x", "y", "z">>
UpperLetters ==
    <<"A", "B", "C", "D", "E", "F", "G", "H", "I", "J", "K", "L", "M",
      "N", "O", "P", "Q", "R", "S", "T", "U", "V", "W", "X", "Y", "Z">>
IsLower(c) == \E i \in 1..Len(LowerLetters) : LowerLetters[i] = c
IsUpper(c) == \E i \in 1..Len(UpperLetters) : UpperLetters[i] = c
LowerChar(c) ==
    IF IsUpper(c)
    THEN LowerLetters[CHOOSE i \in 1..Len(UpperLetters) : UpperLetters[i] = c]
    ELSE c
UpperChar(c) ==
    IF IsLower(c)
    THEN UpperLetters[CHOOSE i \in 1..Len(LowerLetters) : LowerLetters[i] = c]
    ELSE c

\* str.lower()
Lower(str) == [i \in 1..Len(str) |-> LowerChar(str[i])]

RECURSIVE Join(_, _)
\* sep.join(parts)
Join(sep, parts) ==
    IF parts = <<>> THEN <<>>
    ELSE IF Len(parts) = 1 THEN parts[1]
    ELSE parts[1] \o sep \o Join(sep, Tail(parts))

\* str.find(sub) >= 0
Contains(str, sub) ==
    \E i \in 1..(Len(str) + 1) :
        /\ i + Len(sub) - 1 <= Len(str)
        /\ SubSeq(str, i, i + Len(sub) - 1) = sub

\* str.endswith(suffix)
EndsWith(str, suffix) ==
    /\ Len(suffix) <= Len(str)
    /\ SubSeq(str, Len(str) - Len(suffix) + 1, Len(str)) = suffix

\* a JSON / query value is tagged with its Python type
StrValue(s) == [t |-> "str", v |-> s]
ListValue(l) == [t |-> "list", v |-> l]
DictValue(d) == [t |-> "dict", v |-> d]
IsDict(value) == value.t = "dict"

\* dict.get(key) of a dictionary of strings, None when the key is absent
DictGet(d, k) == IF k \in DOMAIN d THEN d[k] ELSE NoneStr

(***************************************************************************)
(* String constants of rules.py / constants.py                             *)
(***************************************************************************)
S_list == <<"l", "i", "s", "t">>
S_create == <<"c", "r", "e", "a", "t", "e">>
S_get == <<"g", "e", "t">>
S_update == <<"u", "p", "d", "a", "t", "e">>
S_set == <<"s", "e", "t">>
S_delete == <<"d", "e", "l", "e", "t", "e">>

\* rules.py: http_method_map
http_method_map ==
    [m \in {"GET", "PATCH", "DELETE", "POST", "PUT", "HEAD"} |->
        CASE m = "GET" -> S_list
          [] m = "PATCH" -> S_update
          [] m = "DELETE" -> S_delete
          [] m = "POST" -> S_create
          [] m = "PUT" -> S_set
          [] m = "HEAD" -> S_get]

\* constants.py
TASK_OPERATION == <<"$", "t", "a", "s", "k">>
TASK_REST_QUERY_PARAM == <<"v", "m", "w", "-", "t", "a", "s", "k">>
ACTION_PARAM == <<"a", "c", "t", "i", "o", "n">>
TILDE_ACTION == <<"~", "a", "c", "t", "i", "o", "n">>
SESSION_SERVICE ==
    <<"c", "o", "m", ".", "v", "m", "w", "a", "r", "e", ".",
      "c", "i", "s", ".", "s", "e", "s", "s", "i", "o", "n">>

\* constants.py: RestAnnotationType
RestAnnotationType_NONE == "NONE"
RestAnnotationType_REQUEST == "REQUEST"
RestAnnotationType_VERB == "VERB"

\* vmware.vapi.bindings.task_helper
GetNonTaskOperationName(operation_id) ==
    IF EndsWith(operation_id, TASK_OPERATION)
    THEN SubSeq(operation_id, 1, Len(operation_id) - Len(TASK_OPERATION))
    ELSE operation_id
GetTaskOperationName(operation_id) == operation_id \o TASK_OPERATION

(***************************************************************************)
(* rules.py: the mapping rules                                             *)
(***************************************************************************)
\* metamodel type categories / builtin types used by the parameters
BUILTIN == "BUILTIN"
USER_DEFINED == "USER_DEFINED"
ID == "ID"
BuiltinSTRING == "STRING"

\* the REST prefix handed to RoutingRuleGenerator, and its normalisation
RestPrefixInput == <<"/", "r">>
RestPrefix ==
    IF ~EndsWith(RestPrefixInput, <<"/">>) THEN RestPrefixInput \o <<"/">>
    ELSE RestPrefixInput

\* MappingRule._generate_service_base_url
GenerateServiceBaseUrl(service_id) ==
    RestPrefix \o Lower(Replace(Replace(service_id, "_", "-"), ".", "/"))

RECURSIVE GetIdSuffixFrom(_, _)
GetIdSuffixFrom(param_info_map, i) ==
    IF i > Len(param_info_map) THEN <<>>
    ELSE IF /\ param_info_map[i].category = BUILTIN
            /\ param_info_map[i].builtin_type = ID
         THEN <<"/", "<", "s", "t", "r", "i", "n", "g", ":">>
                  \o param_info_map[i].name \o <<">">>
         ELSE GetIdSuffixFrom(param_info_map, i + 1)

\* an identifier suffix that overlooks the first declared parameter
GetIdSuffixAfterFirst(param_info_map) == GetIdSuffixFrom(param_info_map, 2)

\* MappingRule._get_id_suffix
GetIdSuffix(param_info_map) == GetIdSuffixFrom(param_info_map, 1)

\* DispatchInfo.__init__
DispatchInfo(mapping_type, operation_id, params, headers, action_value) ==
    [mapping_type |-> mapping_type, operation_id |-> operation_id,
     params |-> IF params = NoneStr THEN <<>> ELSE params,
     headers |-> IF headers = NoneStr THEN <<>> ELSE headers,
     action_value |-> action_value]

DefaultDispatchInfo(operation_id) ==
    DispatchInfo(RestAnnotationType_NONE, GetNonTaskOperationName(operation_id),
                 NoneStr, NoneStr, NoneStr)

MappingResult(url, http_method, dispatch_info) ==
    [url |-> url, method |-> http_method, dispatch_info |-> dispatch_info]

\* OperationSummary.has_request_mapping_metadata / has_verb_metadata
HasRequestMappingMetadata(summary) == summary.request_mapping_metadata # NoneRec
HasVerbMetadata(summary) == summary.verb_metadata # NoneRec

\* ListMappingRule
ListMappingRuleMatch(operation_id, summary) == operation_id = S_list
ListMappingRuleUrl(service_id, operation_id, summary) ==
    MappingResult(GenerateServiceBaseUrl(service_id), "GET",
                  DefaultDispatchInfo(operation_id))

\* PostMappingRule
PostMappingRuleMatch(operation_id, summary) == operation_id = S_create
PostMappingRuleUrl(service_id, operation_id, summary) ==
    MappingResult(GenerateServiceBaseUrl(service_id), "POST",
                  DefaultDispatchInfo(operation_id))

\* the common body of DeleteMappingRule.url .. PutMappingRule.url
IdRuleUrl(service_id, operation_id, summary, http_method) ==
    LET service_url == GenerateServiceBaseUrl(service_id)
        id_suffix == GetIdSuffix(summary.param_info_map)
    IN IF id_suffix # <<>>
       THEN MappingResult(service_url \o id_suffix, http_method,
                          DefaultDispatchInfo(operation_id))
       ELSE MappingResult(service_url, "POST", DefaultDispatchInfo(operation_id))

\* DeleteMappingRule
DeleteMappingRuleMatch(operation_id, summary) == operation_id = S_delete
DeleteMappingRuleUrl(service_id, operation_id, summary) ==
    IdRuleUrl(service_id, operation_id, summary, "DELETE")

\* GetMappingRule
GetMappingRuleMatch(operation_id, summary) == operation_id = S_get
GetMappingRuleUrl(service_id, operation_id, summary) ==
    IdRuleUrl(service_id, operation_id, summary, "GET")

\* PatchMappingRule
PatchMappingRuleMatch(operation_id, summary) == operation_id = S_update
PatchMappingRuleUrl(service_id, operation_id, summary) ==
    IdRuleUrl(service_id, operation_id, summary, "PATCH")

\* PutMappingRule
PutMappingRuleMatch(operation_id, summary) == operation_id = S_set
PutMappingRuleUrl(service_id, operation_id, summary) ==
    IdRuleUrl(service_id, operation_id, summary, "PUT")

\* PostActionMappingRule
crud_ops == {S_create, S_get, S_list, S_update, S_set, S_delete}
PostActionMappingRuleMatch(operation_id, summary) == operation_id \notin crud_ops
PostActionMappingRuleUrl(service_id, operation_id, summary) ==
    MappingResult(GenerateServiceBaseUrl(service_id)
                      \o GetIdSuffix(summary.param_info_map),
                  "POST", DefaultDispatchInfo(operation_id))

\* the URL of an annotation: '{' -> '<', '}' -> '>', prefix + url[1:]
CustomUrl(value) ==
    RestPrefix \o Tail(Replace(Replace(value, "{", "<"), "}", ">"))

RECURSIVE ActionFromParams(_, _)
ActionFromParams(list_value, i) ==
    IF i > Len(list_value) THEN NoneStr
    ELSE LET param_split == Split(list_value[i], "=")
         IN IF Len(param_split) = 2 /\ param_split[1] = ACTION_PARAM
            THEN param_split[2]
            ELSE ActionFromParams(list_value, i + 1)

\* CustomRequestMappingRule
CustomRequestMappingRuleMatch(operation_id, summary) ==
    HasRequestMappingMetadata(summary)
CustomRequestMappingRuleUrl(service_id, operation_id, summary) ==
    LET request_mapping == summary.request_mapping_metadata
        custom_url == CustomUrl(request_mapping.value)
        url_split == Split(custom_url, "?")
        action_value ==
            IF Len(url_split) > 1
            THEN Split(url_split[2], "=")[2]
            ELSE IF request_mapping.params # NoneStr /\ request_mapping.params # <<>>
                 THEN ActionFromParams(request_mapping.params, 1)
                 ELSE NoneStr
    IN MappingResult(url_split[1], request_mapping.method,
                     DispatchInfo(RestAnnotationType_REQUEST,
                                  GetNonTaskOperationName(operation_id),
                                  NoneStr, NoneStr, action_value))

\* VerbMappingRule
VerbMappingRuleMatch(operation_id, summary) == HasVerbMetadata(summary)
VerbMappingRuleUrl(service_id, operation_id, summary) ==
    LET request_metadata == summary.verb_metadata
    IN MappingResult(CustomUrl(request_metadata.path), request_metadata.method,
                     DispatchInfo(RestAnnotationType_VERB,
                                  GetNonTaskOperationName(operation_id),
                                  request_metadata.params,
                                  request_metadata.headers, NoneStr))

\* a rule list that tries the predicate rule before the request mapping
MappingRuleNamesVerbFirst ==
    <<"VerbMappingRule", "CustomRequestMappingRule", "ListMappingRule",
      "PostMappingRule", "DeleteMappingRule", "GetMappingRule",
      "PatchMappingRule", "PutMappingRule", "PostActionMappingRule">>

\* RoutingRuleGenerator.__init__: self._mapping_rules, in order
MappingRuleNames ==
    <<"CustomRequestMappingRule", "VerbMappingRule", "ListMappingRule",
      "PostMappingRule", "DeleteMappingRule", "GetMappingRule",
      "PatchMappingRule", "PutMappingRule", "PostActionMappingRule">>

RuleMatch(rule, operation_id, summary) ==
    CASE rule = "CustomRequestMappingRule" -> CustomRequestMappingRuleMatch(operation_id, summary)
      [] rule = "VerbMappingRule" -> VerbMappingRuleMatch(operation_id, summary)
      [] rule = "ListMappingRule" -> ListMappingRuleMatch(operation_id, summary)
      [] rule = "PostMappingRule" -> PostMappingRuleMatch(operation_id, summary)
      [] rule = "DeleteMappingRule" -> DeleteMappingRuleMatch(operation_id, summary)
      [] rule = "GetMappingRule" -> GetMappingRuleMatch(operation_id, summary)
      [] rule = "PatchMappingRule" -> PatchMappingRuleMatch(operation_id, summary)
      [] rule = "PutMappingRule" -> PutMappingRuleMatch(operation_id, summary)
      [] rule = "PostActionMappingRule" -> PostActionMappingRuleMatch(operation_id, summary)

RuleUrl(rule, service_id, operation_id, summary) ==
    CASE rule = "CustomRequestMappingRule" -> CustomRequestMappingRuleUrl(service_id, operation_id, summary)
      [] rule = "VerbMappingRule" -> VerbMappingRuleUrl(service_id, operation_id, summary)
      [] rule = "ListMappingRule" -> ListMappingRuleUrl(service_id, operation_id, summary)
      [] rule = "PostMappingRule" -> PostMappingRuleUrl(service_id, operation_id, summary)
      [] rule = "DeleteMappingRule" -> DeleteMappingRuleUrl(service_id, operation_id, summary)
      [] rule = "GetMappingRule" -> GetMappingRuleUrl(service_id, operation_id, summary)
      [] rule = "PatchMappingRule" -> PatchMappingRuleUrl(service_id, operation_id, summary)
      [] rule = "PutMappingRule" -> PutMappingRuleUrl(service_id, operation_id, summary)
      [] rule = "PostActionMappingRule" -> PostActionMappingRuleUrl(service_id, operation_id, summary)

RECURSIVE GenerateMappingRuleFrom(_, _, _, _)
GenerateMappingRuleFrom(i, service_id, operation_id, summary) ==
    IF i > Len(MappingRuleNames) THEN NoneRec
    ELSE IF service_id = SESSION_SERVICE /\ MappingRuleNames[i] = "VerbMappingRule"
         THEN GenerateMappingRuleFrom(i + 1, service_id, operation_id, summary)
    ELSE IF RuleMatch(MappingRuleNames[i], operation_id, summary)
         THEN RuleUrl(MappingRuleNames[i], service_id, operation_id, summary)
         ELSE GenerateMappingRuleFrom(i + 1, service_id, operation_id, summary)

\* RoutingRuleGenerator.generate_mapping_rule
GenerateMappingRule(service_id, operation_id, summary) ==
    GenerateMappingRuleFrom(1, service_id, operation_id, summary)

(***************************************************************************)
(* handler.py: MetadataStore                                               *)
(***************************************************************************)
\* str.title()
Title(str) ==
    [i \in 1..Len(str) |->
        IF i = 1 \/ ~(IsLower(str[i - 1]) \/ IsUpper(str[i - 1]))
        THEN UpperChar(str[i]) ELSE LowerChar(str[i])]

\* dict[k] = v
DictSet(d, k, v) == [x \in DOMAIN d \cup {k} |-> IF x = k THEN v ELSE d[x]]

\* MetadataStore._translate_param_name
TranslateParamName(name) ==
    Join(<<"_", "_">>, Split(name, "-"))

\* the alias key of a @Header annotation: alias.title().replace('_', '-')
HeaderKey(alias) == Replace(Title(alias), "_", "-")

RECURSIVE StructVariables(_, _, _, _)
\* MetadataStore._get_header_and_query_variables: the loop over the fields
\* of a structure parameter; acc = [header, query]
StructVariables(param_name, fields, i, acc) ==
    IF i > Len(fields) THEN acc
    ELSE LET info == fields[i]
             name0 == info.name
             name1 == IF info.header # NoneStr
                      THEN param_name \o <<".">> \o name0 ELSE name0
             name2 == IF info.query # NoneStr
                      THEN param_name \o <<".">> \o name1 ELSE name1
             acc1 == IF info.header # NoneStr
                     THEN [acc EXCEPT !.header =
                              DictSet(@, HeaderKey(info.header), name1)]
                     ELSE acc
             acc2 == IF info.query # NoneStr
                     THEN [acc1 EXCEPT !.query =
                              DictSet(@, param_name \o <<".">> \o info.query, name2)]
                     ELSE acc1
         IN IF info.category # USER_DEFINED
            THEN StructVariables(param_name, fields, i + 1, acc2)
            ELSE StructVariables(param_name, fields, i + 1, acc)

RECURSIVE HeaderAndQueryVariablesFrom(_, _, _)
HeaderAndQueryVariablesFrom(param_info_map, i, acc) ==
    IF i > Len(param_info_map) THEN acc
    ELSE LET param_info == param_info_map[i]
             param_name == param_info.name
             acc1 == IF param_info.header # NoneStr
                     THEN [acc EXCEPT !.header =
                              DictSet(@, HeaderKey(param_info.header), param_name)]
                     ELSE acc
             acc2 == IF param_info.query # NoneStr
                     THEN [acc1 EXCEPT !.query =
                              DictSet(@, param_info.query, param_name)]
                     ELSE acc1
         IN IF param_info.category # USER_DEFINED
            THEN HeaderAndQueryVariablesFrom(param_info_map, i + 1, acc2)
            ELSE HeaderAndQueryVariablesFrom(
                     param_info_map, i + 1,
                     StructVariables(param_name, param_info.fields, 1, acc))

\* MetadataStore._get_header_and_query_variables
GetHeaderAndQueryVariables(param_info_map) ==
    HeaderAndQueryVariablesFrom(param_info_map, 1, [header |-> <<>>, query |-> <<>>])

RECURSIVE PathVariablesFrom(_, _, _)
PathVariablesFrom(param_info_map, i, acc) ==
    IF i > Len(param_info_map) THEN acc
    ELSE IF param_info_map[i].path_variable # NoneStr
         THEN PathVariablesFrom(
                  param_info_map, i + 1,
                  DictSet(acc, TranslateParamName(param_info_map[i].path_variable),
                          param_info_map[i].name))
         ELSE PathVariablesFrom(param_info_map, i + 1, acc)

\* MetadataStore._create_operation_summary
CreateOperationSummary(operation_info, service_id) ==
    LET param_info_map == operation_info.params
        path_variables_map ==
            IF operation_info.request_mapping # NoneRec
            THEN DictValue(PathVariablesFrom(param_info_map, 1, <<>>)) ELSE NoneRec
        verb_info ==
            IF operation_info.request_mapping = NoneRec /\ service_id # SESSION_SERVICE
            THEN operation_info.verb ELSE NoneRec
        variables == GetHeaderAndQueryVariables(param_info_map)
    IN [param_info_map |-> param_info_map,
        path_variables_map |-> path_variables_map,
        request_mapping_metadata |-> operation_info.request_mapping,
        verb_metadata |-> verb_info,
        query_variables_map |->
            IF verb_info # NoneRec THEN DictValue(variables.query) ELSE NoneRec,
        header_variables_map |->
            IF verb_info # NoneRec THEN DictValue(variables.header) ELSE NoneRec,
        success_response_code |->
            IF verb_info # NoneRec THEN operation_info.response_code ELSE NoneInt]

\* MetadataStore._process_component_info: service_map[service_id], the
\* operations of a service in their declaration order
ProcessServiceInfo(service_id, operations) ==
    [i \in 1..Len(operations) |->
        [id |-> operations[i].id,
         summary |-> CreateOperationSummary(operations[i], service_id)]]

\* service_map[service_id][operation_id], None when absent
OperationLookup(service, operation_id) ==
    IF \E i \in 1..Len(service) : service[i].id = operation_id
    THEN service[CHOOSE i \in 1..Len(service) : service[i].id = operation_id].summary
    ELSE NoneRec

OperationIn(service, operation_id) ==
    \E i \in 1..Len(service) : service[i].id = operation_id

(***************************************************************************)
(* rules.py: RoutingRuleGenerator.rest_rules                               *)
(***************************************************************************)
\* the (service_url, http_method, dispatch_info) of every operation of a
\* service, in iteration order
ServiceMappings(service_id, service) ==
    [i \in 1..Len(service) |->
        GenerateMappingRule(service_id, service[i].id, service[i].summary)]

RECURSIVE DispatchInfosFor(_, _, _, _)
\* rules_dict[(service_id, service_url, http_method)]
DispatchInfosFor(mappings, i, url, http_method) ==
    IF i > Len(mappings) THEN <<>>
    ELSE IF mappings[i].url = url /\ mappings[i].method = http_method
         THEN <<mappings[i].dispatch_info>>
                  \o DispatchInfosFor(mappings, i + 1, url, http_method)
         ELSE DispatchInfosFor(mappings, i + 1, url, http_method)

\* RoutingRuleGenerator.rest_rules
RestRules(smap) ==
    UNION {LET mappings == ServiceMappings(service_id, smap[service_id])
           IN {[service_id |-> service_id,
                url |-> mappings[i].url,
                method |-> mappings[i].method,
                dispatch_info_list |->
                    DispatchInfosFor(mappings, 1, mappings[i].url, mappings[i].method)]
               : i \in 1..Len(mappings)}
           : service_id \in DOMAIN smap}

(***************************************************************************)
(* rules.py: DispatchInfo matching                                         *)
(***************************************************************************)
\* werkzeug Headers: membership and lookup ignore the case of the name;
\* headers is the sequence of <<name, value>> pairs of the request
HeadersContains(headers, name) ==
    \E i \in 1..Len(headers) : Lower(headers[i][1]) = Lower(name)
HeadersGet(headers, name) ==
    IF HeadersContains(headers, name)
    THEN headers[CHOOSE i \in 1..Len(headers) :
                     /\ Lower(headers[i][1]) = Lower(name)
                     /\ \A j \in 1..(i - 1) : Lower(headers[j][1]) # Lower(name)][2]
    ELSE NoneStr

\* ','.join([x.strip() for x in value.split(',')])
CommaNormalize(value) ==
    LET parts == Split(value, ",")
    IN Join(<<",">>, [i \in 1..Len(parts) |-> Strip(parts[i])])

\* a default matching that derives the operation id from the verb alone
DefaultMatchingVerbOnly(self, http_method, query_params, uri_params) ==
    [match |-> http_method_map[http_method] = self.operation_id, arity |-> 1]

\* DispatchInfo._default_matching
DefaultMatching(self, http_method, query_params, uri_params) ==
    LET operation_id0 == http_method_map[http_method]
        operation_id1 == IF uri_params # <<>> /\ operation_id0 = S_list
                         THEN S_get ELSE operation_id0
        action == DictGet(query_params, TILDE_ACTION)
        operation_id2 == IF action # NoneStr /\ action # <<>>
                         THEN Replace(action, "-", "_") ELSE operation_id1
    IN [match |-> operation_id2 = self.operation_id, arity |-> 1]

\* DispatchInfo._request_matching
RequestMatching(self, http_method, query_params, uri_params) ==
    LET action_requested == DictGet(query_params, ACTION_PARAM)
    IN IF action_requested # NoneStr /\ action_requested # <<>>
       THEN [match |-> action_requested = self.action_value, arity |-> 1]
       ELSE DefaultMatching(self, http_method, query_params, uri_params)

\* DispatchInfo._verb_matching: one iteration of the loop over self.params;
\* returns the arity and the final value of match ("None", "True", "False")
VerbParamStep(param, arity, query_params) ==
    LET param_split == Split(param, "=")
        name == Strip(param_split[1])
        present == name \in DOMAIN query_params
        arity1 == IF present THEN arity + 3 ELSE arity - 1
        match1 == IF present THEN "True" ELSE "None"
        q_val == DictGet(query_params, name)
    IN IF Len(param_split) > 1
       THEN IF q_val = param_split[2]
            THEN [arity |-> arity1 + 4, match |-> match1]
            ELSE IF match1 = "True" /\ param_split[2] # <<>>
                 THEN [arity |-> arity1, match |-> "False"]
                 ELSE [arity |-> arity1, match |-> match1]
       ELSE [arity |-> arity1, match |-> match1]

\* DispatchInfo._verb_matching: one iteration of the loop over self.headers
VerbHeaderStep(header, arity, headers) ==
    LET header_split == Split(header, ":")
        present == HeadersContains(headers, Lower(header_split[1]))
        arity1 == IF present THEN arity + 1 ELSE arity - 1
        match1 == IF present THEN "True" ELSE "None"
        declared == CommaNormalize(header_split[2])
        header_val0 == HeadersGet(headers, Strip(header_split[1]))
        header_val == IF header_val0 # NoneStr /\ header_val0 # <<>>
                      THEN CommaNormalize(header_val0) ELSE header_val0
    IN IF Len(header_split) > 1
       THEN IF header_val # NoneStr /\ header_val # <<>> /\ Contains(header_val, declared)
            THEN [arity |-> arity1 + 2, match |-> "True"]
            ELSE IF match1 = "True" /\ declared # <<>>
                 THEN [arity |-> arity1, match |-> "False"]
                 ELSE [arity |-> arity1, match |-> match1]
       ELSE [arity |-> arity1, match |-> match1]

RECURSIVE VerbHeadersLoop(_, _, _, _)
VerbHeadersLoop(declared, i, arity, headers) ==
    IF i > Len(declared) THEN [match |-> TRUE, arity |-> arity]
    ELSE LET step == VerbHeaderStep(declared[i], arity, headers)
         IN IF step.match = "False" THEN [match |-> FALSE, arity |-> step.arity]
            ELSE VerbHeadersLoop(declared, i + 1, step.arity, headers)

RECURSIVE VerbParamsLoop(_, _, _, _, _)
VerbParamsLoop(self, i, arity, query_params, headers) ==
    IF i > Len(self.params) THEN VerbHeadersLoop(self.headers, 1, arity, headers)
    ELSE LET step == VerbParamStep(self.params[i], arity, query_params)
         IN IF step.match = "False" THEN [match |-> FALSE, arity |-> step.arity]
            ELSE VerbParamsLoop(self, i + 1, step.arity, query_params, headers)

\* DispatchInfo._verb_matching
VerbMatching(self, query_params, headers) ==
    VerbParamsLoop(self, 1, 0, query_params, headers)

\* DispatchInfo.get_operation_id
GetOperationId(self, request, query_params, uri_params) ==
    LET r == IF self.mapping_type = RestAnnotationType_VERB
             THEN VerbMatching(self, query_params, request.headers)
             ELSE IF self.mapping_type = RestAnnotationType_REQUEST
                  THEN RequestMatching(self, request.method, query_params, uri_params)
                  ELSE DefaultMatching(self, request.method, query_params, uri_params)
    IN [operation_id |-> IF r.match THEN self.operation_id ELSE NoneStr,
        arity |-> r.arity, mapping_type |-> self.mapping_type]

(***************************************************************************)
(* Query strings, JSON values                                              *)
(***************************************************************************)
\* the items 'key=value' of a query string, in order, as <<key, value>>;
\* an item without '=' has the value NoneStr
QueryItems(query_string) ==
    LET items == IF query_string = <<>> THEN <<>> ELSE Split(query_string, "&")
    IN [i \in 1..Len(items) |->
           IF \E p \in 1..Len(items[i]) : items[i][p] = "="
           THEN LET pos == CHOOSE p \in 1..Len(items[i]) :
                               /\ items[i][p] = "="
                               /\ \A q \in 1..(p - 1) : items[i][q] # "="
                IN <<SubSeq(items[i], 1, pos - 1),
                     SubSeq(items[i], pos + 1, Len(items[i]))>>
           ELSE <<items[i], NoneStr>>]

\* werkzeug.urls.url_decode(...) read through .get(): the first value of
\* every key; an item without '=' has the empty value, an empty item is
\* dropped
UrlDecode(query_string) ==
    LET items == QueryItems(query_string)
        keys == {items[i][1] : i \in {j \in 1..Len(items) : items[j][1] # <<>>}}
    IN [k \in keys |->
           LET first == CHOOSE i \in 1..Len(items) :
                            /\ items[i][1] = k
                            /\ \A j \in 1..(i - 1) : items[j][1] # k
           IN IF items[first][2] = NoneStr THEN <<>> ELSE items[first][2]]

RECURSIVE KeyValuePairsFrom(_, _, _)
\* URLValueDeserializer.deserialize: key_value_pairs, an ordered dictionary
\* kept as a sequence of <<key, value>>
KeyValuePairsFrom(items, i, acc) ==
    IF i > Len(items) THEN acc
    ELSE LET key == items[i][1]
             value == items[i][2]
             seen == \E j \in 1..Len(acc) : acc[j][1] = key
             at == CHOOSE j \in 1..Len(acc) : acc[j][1] = key
         IN IF value = NoneStr \/ value = <<>>
            THEN KeyValuePairsFrom(items, i + 1, acc)
            ELSE IF ~seen
            THEN KeyValuePairsFrom(items, i + 1, Append(acc, <<key, StrValue(value)>>))
            ELSE IF acc[at][2].t = "str"
            THEN KeyValuePairsFrom(items, i + 1,
                     [acc EXCEPT ![at] = <<key, ListValue(<<acc[at][2].v, value>>)>>])
            ELSE KeyValuePairsFrom(items, i + 1,
                     [acc EXCEPT ![at] = <<key, ListValue(Append(acc[at][2].v, value))>>])

KeyValuePairs(query_string) == KeyValuePairsFrom(QueryItems(query_string), 1, <<>>)

RECURSIVE InsertTokens(_, _, _)
\* URLValueDeserializer.deserialize: the walk over the tokens of one key
\* for mapping types other than VERB (tokens that are not digits)
InsertTokens(current_value, tokens, v) ==
    IF Len(tokens) = 1 THEN DictSet(current_value, tokens[1], v)
    ELSE LET next_value == IF tokens[1] \in DOMAIN current_value
                           THEN current_value[tokens[1]] ELSE DictValue(<<>>)
         IN IF IsDict(next_value)
            THEN DictSet(current_value, tokens[1],
                         DictValue(InsertTokens(next_value.v, Tail(tokens), v)))
            ELSE current_value

RECURSIVE DeserializeFrom(_, _, _, _)
DeserializeFrom(pairs, i, mapping_type, query_string_dict) ==
    IF i > Len(pairs) THEN query_string_dict
    ELSE IF mapping_type = RestAnnotationType_VERB
         THEN DeserializeFrom(pairs, i + 1, mapping_type,
                  DictSetDefault(query_string_dict, pairs[i][1], pairs[i][2]))
         ELSE DeserializeFrom(pairs, i + 1, mapping_type,
                  InsertTokens(query_string_dict, Split(pairs[i][1], "."), pairs[i][2]))

\* URLValueDeserializer.deserialize
Deserialize(query_string, mapping_type) ==
    DeserializeFrom(KeyValuePairs(query_string), 1, mapping_type, <<>>)

(***************************************************************************)
(* handler.py: DataValueDeserializer                                       *)
(***************************************************************************)
RECURSIVE ChangeParameterStructure(_, _, _)
\* DataValueDeserializer._change_parameter_structure
ChangeParameterStructure(output, names, value) ==
    LET name == names[1]
        sub_param_dict == IF name \in DOMAIN output /\ IsDict(output[name])
                          THEN output[name].v ELSE <<>>
    IN IF Len(names) > 1
       THEN DictSet(output, name,
                    DictValue(ChangeParameterStructure(sub_param_dict, Tail(names), value)))
       ELSE DictSet(output, name, value)

\* DataValueDeserializer.map_uri_params; [raised, data]
MapUriParams(uri_parameters, service, operation_id) ==
    LET operation == OperationLookup(service, operation_id)
        path_variables_map == operation.path_variables_map.v
        canonical == {path_variables_map[name] : name \in DOMAIN uri_parameters}
    IN IF ~HasRequestMappingMetadata(operation)
       THEN [raised |-> FALSE, data |-> uri_parameters]
       ELSE IF \E name \in DOMAIN uri_parameters : name \notin DOMAIN path_variables_map
       THEN [raised |-> TRUE, data |-> <<>>]
       ELSE [raised |-> FALSE,
             data |-> [c \in canonical |->
                          uri_parameters[CHOOSE name \in DOMAIN uri_parameters :
                                             path_variables_map[name] = c]]]

RECURSIVE MapQueryParamsFrom(_, _, _, _)
MapQueryParamsFrom(pairs, i, query_variables_map, output_data) ==
    IF i > Len(pairs) THEN output_data
    ELSE IF /\ pairs[i][1] # TASK_REST_QUERY_PARAM
            /\ pairs[i][1] \in DOMAIN query_variables_map
         THEN MapQueryParamsFrom(pairs, i + 1, query_variables_map,
                  ChangeParameterStructure(
                      output_data, Split(query_variables_map[pairs[i][1]], "."),
                      pairs[i][2]))
         ELSE MapQueryParamsFrom(pairs, i + 1, query_variables_map, output_data)

\* DataValueDeserializer.map_query_params; [raised, data].  The test of
\* operation.has_verb_metadata (a bound method) never takes the early return.
MapQueryParams(request, service, operation_id) ==
    LET operation == OperationLookup(service, operation_id)
        pairs == KeyValuePairs(request.query_string)
    IN IF operation.query_variables_map = NoneRec
       THEN [raised |-> \E i \in 1..Len(pairs) : pairs[i][1] # TASK_REST_QUERY_PARAM,
             data |-> <<>>]
       ELSE [raised |-> FALSE,
             data |-> MapQueryParamsFrom(pairs, 1, operation.query_variables_map.v, <<>>)]

RECURSIVE MapHeaderParamsFrom(_, _, _, _)
MapHeaderParamsFrom(headers, i, header_variables_map, output_data) ==
    IF i > Len(headers) THEN output_data
    ELSE IF headers[i][1] \in DOMAIN header_variables_map
         THEN MapHeaderParamsFrom(headers, i + 1, header_variables_map,
                  ChangeParameterStructure(
                      output_data, Split(header_variables_map[headers[i][1]], "."),
                      StrValue(headers[i][2])))
         ELSE MapHeaderParamsFrom(headers, i + 1, header_variables_map, output_data)

\* DataValueDeserializer.map_header_params; [raised, data]
MapHeaderParams(request, service, operation_id) ==
    LET operation == OperationLookup(service, operation_id)
    IN IF operation.header_variables_map = NoneRec
       THEN [raised |-> request.headers # <<>>, data |-> <<>>]
       ELSE [raised |-> FALSE,
             data |-> MapHeaderParamsFrom(request.headers, 1,
                                          operation.header_variables_map.v, <<>>)]

\* param_info_map[param_name], NoneRec when absent
ParamLookup(param_info_map, param_name) ==
    IF \E i \in 1..Len(param_info_map) : param_info_map[i].name = param_name
    THEN param_info_map[CHOOSE i \in 1..Len(param_info_map) :
                            param_info_map[i].name = param_name]
    ELSE NoneRec

\* DataValueDeserializer.visit of one parameter value: the status raised
\* (NoneInt when the value converts).  For a structure, a value that is
\* not a dictionary cannot be iterated (any other exception: 500) and a
\* field the structure does not declare is a BadRequest (400).
Visit(param_info, json_value) ==
    IF param_info.category = USER_DEFINED
    THEN IF ~IsDict(json_value) THEN 500
         ELSE IF \E field_name \in DOMAIN json_value.v :
                     \A i \in 1..Len(param_info.fields) :
                         param_info.fields[i].name # field_name
              THEN 400
              ELSE NoneInt
    ELSE NoneInt

\* DataValueDeserializer.generate_operation_input: the statuses the
\* conversion of input_data can raise; the first parameter (in dictionary
\* order) that fails decides, so every failing parameter is a possible one.
GenerateOperationInputErrors(service, operation_id, input_data) ==
    LET param_info_map == OperationLookup(service, operation_id).param_info_map
    IN {IF ParamLookup(param_info_map, param_name) = NoneRec
        THEN 400
        ELSE Visit(ParamLookup(param_info_map, param_name), input_data[param_name])
        : param_name \in DOMAIN input_data} \ {NoneInt}

(***************************************************************************)
(* handler.py: RESTHandler                                                 *)
(***************************************************************************)
\* a loop that takes the first descriptor whatever its verdict
ScoringLoopFirst(request, query_params, uri_parameters, dispatch_info_list, i, acc) ==
    [operation_id |-> dispatch_info_list[1].operation_id, arity |-> 0,
     mapping_type |-> dispatch_info_list[1].mapping_type]

RECURSIVE ScoringLoop(_, _, _, _, _, _)
\* RESTHandler._find_matching_operation: the loop over dispatch_info_list;
\* acc = [operation_id, arity, mapping_type]
ScoringLoop(request, query_params, uri_parameters, dispatch_info_list, i, acc) ==
    IF i > Len(dispatch_info_list) THEN acc
    ELSE LET curr == GetOperationId(dispatch_info_list[i], request,
                                    query_params, uri_parameters)
         IN IF curr.operation_id # NoneStr /\ curr.arity >= acc.arity
            THEN ScoringLoop(request, query_params, uri_parameters,
                             dispatch_info_list, i + 1,
                             [operation_id |-> curr.operation_id,
                              arity |-> curr.arity,
                              mapping_type |-> curr.mapping_type])
            ELSE ScoringLoop(request, query_params, uri_parameters,
                             dispatch_info_list, i + 1, acc)

\* the test of the fast path of _find_matching_operation
IsFastPath(dispatch_info_list) ==
    /\ Len(dispatch_info_list) = 1
    /\ dispatch_info_list[1].mapping_type # RestAnnotationType_VERB

\* RESTHandler._find_matching_operation: the operation id and mapping type
\* chosen from the descriptors; operation_id is NoneStr when none is chosen
ChooseOperation(request, uri_parameters, query_string_flat_dict, dispatch_info_list) ==
    IF IsFastPath(dispatch_info_list)
    THEN [operation_id |-> dispatch_info_list[1].operation_id,
          arity |-> 0,
          mapping_type |-> dispatch_info_list[1].mapping_type]
    ELSE ScoringLoop(request, query_string_flat_dict, uri_parameters,
                     dispatch_info_list, 1,
                     [operation_id |-> NoneStr, arity |-> 0,
                      mapping_type |-> RestAnnotationType_NONE])

\* RESTHandler._find_matching_operation: what is raised or returned for
\* the operation chosen and the operation id to look up
MatchingOperation(chosen, is_task, operation_id, service) ==
    LET result(status) ==
            [status |-> status, selected |-> chosen.operation_id,
             operation_id |-> operation_id, mapping_type |-> chosen.mapping_type]
    IN IF chosen.operation_id = NoneStr THEN result(404)
       ELSE IF is_task # NoneStr /\ Lower(is_task) # <<"t", "r", "u", "e">> THEN result(400)
       ELSE IF ~OperationIn(service, operation_id) THEN result(404)
       ELSE result(NoneInt)

\* a dispatcher that never takes the task name
TaskInvocationNever(chosen, is_task, service) ==
    MatchingOperation(chosen, is_task, chosen.operation_id, service)

\* RESTHandler._find_matching_operation: a task invocation takes the task
\* name of the operation chosen
TaskInvocation(chosen, is_task, service) ==
    MatchingOperation(chosen, is_task,
                      IF chosen.operation_id # NoneStr /\ is_task # NoneStr
                      THEN GetTaskOperationName(chosen.operation_id)
                      ELSE chosen.operation_id,
                      service)

\* RESTHandler._find_matching_operation;
\* [status, selected, operation_id, mapping_type]: status is the HTTP
\* exception raised (NoneInt when the operation is returned), selected the
\* operation id chosen from the descriptors
FindMatchingOperation(request, service, uri_parameters, query_string_flat_dict, dispatch_info_list) ==
    TaskInvocation(ChooseOperation(request, uri_parameters, query_string_flat_dict,
                                   dispatch_info_list),
                   DictGet(query_string_flat_dict, TASK_REST_QUERY_PARAM), service)

\* a merge in which the dictionary updated keeps its own values
InputDataKeep(input_data, update_data) ==
    [key \in DOMAIN input_data \cup DOMAIN update_data |->
        IF key \in DOMAIN input_data THEN input_data[key] ELSE update_data[key]]

RECURSIVE InputDataUpdate(_, _)
\* RESTHandler._input_data_update
InputDataUpdate(input_data, update_data) ==
    [key \in DOMAIN input_data \cup DOMAIN update_data |->
        IF key \notin DOMAIN update_data THEN input_data[key]
        ELSE IF /\ key \in DOMAIN input_data
                /\ IsDict(input_data[key])
                /\ IsDict(update_data[key])
             THEN DictValue(InputDataUpdate(input_data[key].v, update_data[key].v))
             ELSE update_data[key]]

\* RESTHandler.invoke: the parameters contributed by the query string and
\* the headers of a VERB mapping; [raised, data]
VerbInputData(request, service, operation_id, input_data) ==
    LET q == MapQueryParams(request, service, operation_id)
        h == MapHeaderParams(request, service, operation_id)
    IN IF q.raised \/ h.raised THEN [raised |-> TRUE, data |-> <<>>]
       ELSE [raised |-> FALSE,
             data |-> InputDataUpdate(InputDataUpdate(input_data, q.data), h.data)]

\* RESTHandler.invoke: the query string of a GET that is not a VERB mapping
GetInputData(request, mapping_type, input_data) ==
    LET query_string_parameters == Deserialize(request.query_string, mapping_type)
    IN InputDataUpdate(
           input_data,
           [key \in DOMAIN query_string_parameters \ {TASK_REST_QUERY_PARAM} |->
               query_string_parameters[key]])

\* RESTHandler.invoke: collecting input_data; [status, data].  The body is
\* the parsed JSON document, or a marker for text json.loads rejects.
CollectInputData(request, service, operation_id, mapping_type, uri_parameters) ==
    LET d0 == MapUriParams(uri_parameters, service, operation_id)
        d1 == IF mapping_type = RestAnnotationType_VERB
              THEN VerbInputData(request, service, operation_id, d0.data)
              ELSE d0
        d2 == IF request.method = "GET" /\ mapping_type # RestAnnotationType_VERB
              THEN GetInputData(request, mapping_type, d1.data)
              ELSE d1.data
        has_body == request.method \in {"PUT", "PATCH", "POST"}
                        /\ request.body.kind # "empty"
    IN IF d0.raised \/ d1.raised THEN [status |-> 500, data |-> <<>>]
       ELSE IF has_body /\ request.body.kind = "invalid"
       THEN [status |-> 400, data |-> d2]
       ELSE IF has_body
       THEN [status |-> NoneInt, data |-> InputDataUpdate(d2, request.body.json)]
       ELSE [status |-> NoneInt, data |-> d2]

\* vmware.vapi.rest.lib.vapi_to_http_error_map, the static table from error
\* names to HTTP statuses
E_already_exists == <<"e", "r", "r", "o", "r", "s", ".", "a", "l", "r", "e", "a", "d", "y", "_", "e", "x", "i", "s", "t", "s">>
E_not_found == <<"e", "r", "r", "o", "r", "s", ".", "n", "o", "t", "_", "f", "o", "u", "n", "d">>
E_custom == <<"x", ".", "b", "o", "o", "m">>
vapi_to_http_error_map == (E_already_exists :> 400) @@ (E_not_found :> 404)
VapiToHttpErrorMapGet(name, default) ==
    IF name \in DOMAIN vapi_to_http_error_map
    THEN vapi_to_http_error_map[name] ELSE default

REST_SESSION_ID_KEY == <<"v", "m", "w", "a", "r", "e", "-", "a", "p", "i", "-", "s", "e", "s", "s", "i", "o", "n", "-", "i", "d">>
REQUIRE_HEADER_AUTHN == <<"v", "m", "w", "a", "r", "e", "-", "u", "s", "e", "-", "h", "e", "a", "d", "e", "r", "-", "a", "u", "t", "h", "n">>

\* ResponseCookieBuilder.__init__
ResponseCookieBuilder(session_methods) == [session_methods |-> session_methods]

\* a store that records the status of no structure
ProcessStructureInfoSkip(structure_id, structure_info, errors_response_code_map) ==
    errors_response_code_map

\* MetadataStore._process_structure_info: the status an error structure
\* declares is recorded under the id of the structure
ProcessStructureInfo(structure_id, structure_info, errors_response_code_map) ==
    IF structure_info.type = "ERROR" /\ structure_info.response_code # NoneInt
    THEN [id \in DOMAIN errors_response_code_map \cup {structure_id} |->
             IF id = structure_id THEN structure_info.response_code
             ELSE errors_response_code_map[id]]
    ELSE errors_response_code_map

RECURSIVE ProcessStructures(_, _, _)
\* MetadataStore._process_component_info: every structure is processed
ProcessStructures(structures, i, errors_response_code_map) ==
    IF i > Len(structures) THEN errors_response_code_map
    ELSE ProcessStructures(structures, i + 1,
             ProcessStructureInfo(structures[i].id, structures[i],
                                  errors_response_code_map))

\* RESTHandler._serialize_output: the status of the response
SerializeOutputStatus(request, operation, method_result, errors_response_code_map) ==
    IF method_result.success
    THEN IF request.method = "DELETE" THEN 204
         ELSE IF operation.success_response_code # NoneInt
              THEN operation.success_response_code
              ELSE 200
    ELSE IF method_result.error_name \in DOMAIN errors_response_code_map
         THEN errors_response_code_map[method_result.error_name]
         ELSE VapiToHttpErrorMapGet(method_result.error_name, 500)

\* ResponseCookieBuilder.build: the session cookie of a session login
\* method, None for any other method
BuildCookies(cookie_builder, service_id, operation_id, method_result) ==
    IF (service_id \o <<".">> \o operation_id) \in cookie_builder.session_methods
    THEN DictValue((REST_SESSION_ID_KEY :> method_result.output))
    ELSE NoneRec

\* RESTHandler._serialize_output: the cookies of the response
SerializeOutputCookies(cookie_builder, use_cookies, service_id, operation_id, method_result) ==
    IF method_result.success
    THEN IF cookie_builder = NoneRec \/ ~use_cookies
         THEN NoneRec
         ELSE BuildCookies(cookie_builder, service_id, operation_id, method_result)
    ELSE NoneRec

(***************************************************************************)
(* The metamodel the handler is constructed over, and the requests         *)
(***************************************************************************)
\* metamodel FieldInfo of a parameter or of a structure field
FieldInfo(name, category, builtin_type, fields, header, query, path_variable) ==
    [name |-> name, category |-> category, builtin_type |-> builtin_type,
     fields |-> fields, header |-> header, query |-> query,
     path_variable |-> path_variable]
IdParam(name) == FieldInfo(name, BUILTIN, ID, <<>>, NoneStr, NoneStr, NoneStr)
StringParam(name) == FieldInfo(name, BUILTIN, BuiltinSTRING, <<>>, NoneStr, NoneStr, NoneStr)
StructParam(name, fields) ==
    FieldInfo(name, USER_DEFINED, NoneStr, fields, NoneStr, NoneStr, NoneStr)

\* metamodel OperationInfo
OperationInfo(id, params, request_mapping, verb, response_code) ==
    [id |-> id, params |-> params, request_mapping |-> request_mapping,
     verb |-> verb, response_code |-> response_code]
PlainOperation(id, params) == OperationInfo(id, params, NoneRec, NoneRec, NoneInt)
RequestMapping(value, method, params) ==
    [value |-> value, method |-> method, params |-> params]
VerbMetadata(method, path, params, headers) ==
    [method |-> method, path |-> path, params |-> params, headers |-> headers]

S_id == <<"i", "d">>
S_name == <<"n", "a", "m", "e">>
S_spec == <<"s", "p", "e", "c">>
S_start == <<"s", "t", "a", "r", "t">>
S_stop == <<"s", "t", "o", "p">>
S_dry_run == <<"d", "r", "y", "_", "r", "u", "n">>
S_jobs == <<"j", "o", "b", "s">>

\* a service with the CRUD operations and three custom operations
JobsOperations ==
    <<PlainOperation(S_list, <<>>),
      PlainOperation(S_get, <<IdParam(S_id)>>),
      PlainOperation(S_get \o TASK_OPERATION, <<IdParam(S_id)>>),
      PlainOperation(S_delete, <<IdParam(S_id)>>),
      PlainOperation(S_start, <<IdParam(S_id)>>),
      PlainOperation(S_stop, <<IdParam(S_id)>>),
      PlainOperation(S_dry_run, <<IdParam(S_id)>>)>>

\* the parameters of the operation whose input comes from all four sources
MergeParams ==
    <<[IdParam(S_id) EXCEPT !.query = S_id],
      [StringParam(S_name) EXCEPT !.query = <<"n", "m">>, !.header = <<"x", "_", "n", "m">>],
      StructParam(S_spec,
          <<[StringParam(<<"a">>) EXCEPT !.query = <<"q", "a">>],
            [StringParam(<<"b">>) EXCEPT !.header = <<"h", "b">>]>>)>>

\* a service whose operations carry verb annotations
VerbOperations ==
    <<OperationInfo(<<"a">>, <<>>, NoneRec,
          VerbMetadata("GET", <<"/", "v">>, NoneStr, NoneStr), NoneInt),
      OperationInfo(<<"b">>, <<>>, NoneRec,
          VerbMetadata("GET", <<"/", "v">>, NoneStr, NoneStr), NoneInt),
      OperationInfo(<<"c">>, <<>>, NoneRec,
          VerbMetadata("GET", <<"/", "w">>, <<<<"q">>>>, NoneStr), NoneInt),
      OperationInfo(<<"d">>, <<IdParam(S_id)>>, NoneRec,
          VerbMetadata("POST", <<"/", "x", "/", "{", "i", "d", "}">>, <<<<"m", "=", "1">>>>, NoneStr), NoneInt),
      OperationInfo(<<"e">>, <<IdParam(S_id)>>, NoneRec,
          VerbMetadata("POST", <<"/", "x", "/", "{", "i", "d", "}">>, <<<<"m">>, <<"n">>>>, <<<<"X", "-", "H", ":", "v">>>>), 201),
      OperationInfo(<<"f">>, MergeParams, NoneRec,
          VerbMetadata("POST", <<"/", "y", "/", "{", "i", "d", "}">>, NoneStr, NoneStr), NoneInt),
      OperationInfo(<<"k">>, <<IdParam(S_id)>>, NoneRec,
          VerbMetadata("DELETE", <<"/", "z", "/", "{", "i", "d", "}">>, NoneStr, NoneStr), 202)>>

\* a service whose operations carry request mappings
RequestOperations ==
    <<OperationInfo(<<"g", "o">>, <<[IdParam(S_id) EXCEPT !.path_variable = <<"s", "i", "d">>]>>,
          RequestMapping(<<"/", "s", "/", "{", "s", "i", "d", "}", "?", "a", "c", "t", "i", "o", "n", "=", "g", "o">>, "POST", NoneStr), NoneRec, NoneInt),
      OperationInfo(<<"h", "a", "l", "t">>, <<[IdParam(S_id) EXCEPT !.path_variable = <<"s", "i", "d">>]>>,
          RequestMapping(<<"/", "s", "/", "{", "s", "i", "d", "}">>, "POST", <<<<"a", "c", "t", "i", "o", "n", "=", "h", "a", "l", "t">>>>), NoneRec, NoneInt)>>

\* MetadataStore._build: service_map for each metamodel of the family
Metamodels ==
    {(S_jobs :> ProcessServiceInfo(S_jobs, JobsOperations)),
     (<<"v">> :> ProcessServiceInfo(<<"v">>, VerbOperations)),
     (<<"s">> :> ProcessServiceInfo(<<"s">>, RequestOperations))}

RECURSIVE UrlVariables(_)
\* werkzeug routing: the names of the variables <converter:name> of a rule
UrlVariables(url) ==
    IF \A i \in 1..Len(url) : url[i] # "<" THEN {}
    ELSE LET open == CHOOSE i \in 1..Len(url) :
                         url[i] = "<" /\ \A j \in 1..(i - 1) : url[j] # "<"
             close == CHOOSE i \in (open + 1)..Len(url) :
                          url[i] = ">" /\ \A j \in (open + 1)..(i - 1) : url[j] # ">"
             inner == Split(SubSeq(url, open + 1, close - 1), ":")
         IN {inner[Len(inner)]} \cup UrlVariables(SubSeq(url, close + 1, Len(url)))

\* werkzeug routing: the arguments parsed from the URL of a request the
\* rule matched
UriParameters(url) == [name \in UrlVariables(url) |-> StrValue(<<"i", "1">>)]

\* werkzeug routing: a rule for GET also answers HEAD
RuleMethods(rule) == IF rule.method = "GET" THEN {"GET", "HEAD"} ELSE {rule.method}

EmptyBody == [kind |-> "empty", json |-> <<>>]
InvalidBody == [kind |-> "invalid", json |-> <<>>]
JsonBody(json) == [kind |-> "json", json |-> json]
RequestInput(query_string, headers, body) ==
    [query_string |-> query_string, headers |-> headers, body |-> body]

QueryStringInputs ==
    {<<>>, <<"~", "a", "c", "t", "i", "o", "n", "=", "s", "t", "a", "r", "t">>, <<"~", "a", "c", "t", "i", "o", "n", "=", "s", "t", "o", "p">>, <<"~", "a", "c", "t", "i", "o", "n", "=", "d", "r", "y", "-", "r", "u", "n">>,
     <<"~", "a", "c", "t", "i", "o", "n", "=">>, <<"~", "a", "c", "t", "i", "o", "n", "=", "b", "o", "g", "u", "s">>, <<"q", "=", "1">>, <<"m", "=", "1">>, <<"m", "=", "2", "&", "n", "=", "5">>, <<"m", "=", "3">>,
     <<"a", "c", "t", "i", "o", "n", "=", "g", "o">>, <<"a", "c", "t", "i", "o", "n", "=", "h", "a", "l", "t">>, <<"s", "p", "e", "c", ".", "q", "a", "=", "x", "&", "n", "m", "=", "y">>, <<"i", "d", "=", "z", "&", "n", "m", "=", "y">>,
     <<"v", "m", "w", "-", "t", "a", "s", "k", "=", "t", "r", "u", "e">>, <<"v", "m", "w", "-", "t", "a", "s", "k", "=", "T", "r", "u", "e">>, <<"v", "m", "w", "-", "t", "a", "s", "k", "=", "n", "o">>}

BodyInputs ==
    {InvalidBody,
     JsonBody((S_name :> StrValue(<<"b", "1">>))),
     JsonBody((S_spec :> DictValue((<<"a">> :> StrValue(<<"b", "2">>))))),
     JsonBody((S_spec :> StrValue(<<"b", "3">>)) @@ (S_id :> StrValue(<<"b", "4">>))),
     JsonBody((<<"z", "z", "z">> :> StrValue(<<"b", "5">>))),
     JsonBody((S_spec :> DictValue((<<"z", "z">> :> StrValue(<<"b", "6">>))))),
     JsonBody((S_spec :> StrValue(<<"b", "3">>)) @@ (<<"z", "z", "z">> :> StrValue(<<"b", "5">>)))}

AliasHeaders == <<<<<<"H", "b">>, <<"h", "1">>>>, <<<<"X", "-", "N", "m">>, <<"h", "2">>>>>>

\* the query strings, headers and bodies of the requests
RequestInputs ==
    {RequestInput(q, <<>>, EmptyBody) : q \in QueryStringInputs}
    \cup {RequestInput(q, <<<<<<"X", "-", "H">>, v>>>>, EmptyBody) :
              q \in {<<>>, <<"m", "=", "1">>, <<"m", "=", "2", "&", "n", "=", "5">>}, v \in {<<"v">>, <<"w", " ", ",", " ", "v">>, <<"w">>}}
    \cup {RequestInput(<<>>, <<>>, b) : b \in BodyInputs}
    \cup {RequestInput(<<>>, <<<<REQUIRE_HEADER_AUTHN, <<"1">>>>>>, EmptyBody)}
    \cup {RequestInput(q, AliasHeaders, b) :
              q \in {<<"s", "p", "e", "c", ".", "q", "a", "=", "x", "&", "n", "m", "=", "y">>,
                     <<"i", "d", "=", "z", "&", "n", "m", "=", "y">>},
              b \in BodyInputs}
    \cup {RequestInput(<<"~", "a", "c", "t", "i", "o", "n", "=", "s", "t", "o", "p">>, <<>>, b) : b \in BodyInputs}

\* the structures of the metamodel: an error declaring its status that the
\* static table knows too, an error only the static table knows, an error
\* nothing knows, and a plain structure
StructureInfos ==
    <<[id |-> E_already_exists, type |-> "ERROR", response_code |-> 409],
      [id |-> E_not_found, type |-> "ERROR", response_code |-> NoneInt],
      [id |-> E_custom, type |-> "ERROR", response_code |-> NoneInt],
      [id |-> S_spec, type |-> "STRUCTURE", response_code |-> 201]>>

\* provider_config.get_rest_session_methods()
SessionMethods == {S_jobs \o <<".">> \o S_start}

\* what the provider returns
MethodResult(success, error_name) ==
    [success |-> success, error_name |-> error_name, output |-> <<"o", "u", "t">>]
MethodResults ==
    {MethodResult(TRUE, NoneStr)}
    \cup {MethodResult(FALSE, name) : name \in {E_already_exists, E_not_found, E_custom}}

(***************************************************************************)
(* The REST handler as a state machine                                      *)
(***************************************************************************)
\* RESTHandler.__init__: the metadata store is built and the routes are
\* generated from it; no request has been handled
RestInit ==
    /\ service_map \in Metamodels
    /\ all_errors_response_code_map = ProcessStructures(StructureInfos, 1, <<>>)
    /\ \E allow_cookies \in BOOLEAN :
           response_cookie_builder =
               IF allow_cookies THEN ResponseCookieBuilder(SessionMethods)
               ELSE NoneRec
    /\ rest_rules = RestRules(service_map)
    /\ http_request = NoneRec
    /\ response = NoneRec
    /\ context = NoneRec
    /\ ds_mapping_type = "unset"
    /\ served = 0
    \* the Task Manager takes no part in the handler's behaviours
    /\ task_map = <<>>
    /\ tasks_to_remove = {}
    /\ tasks_to_cancel = {}
    /\ clock = 0
    /\ uuid_count = 0
    /\ entered = [t \in TaskIds |-> NoTime]
    /\ last_call = [op |-> "init"]
    /\ handle = NoneRec
    /\ event = FALSE
    /\ publish_call = [op |-> "init"]
    /\ handle_calls = 0
    /\ created_with = <<>>
    /\ threads = <<>>
    /\ lock = None
    /\ last_write = NoneRec
    /\ task_manager = NoneRec

Response(stage, status, cookies, found, input_data, invoked, provider_call) ==
    [stage |-> stage, status |-> status, cookies |-> cookies,
     selected |-> found.selected,
     operation_id |-> found.operation_id, mapping_type |-> found.mapping_type,
     input_data |-> input_data, invoked |-> invoked,
     provider_call |-> provider_call]

\* the request werkzeug routed to rule
HttpRequest(rule, http_method, input) ==
    [method |-> http_method, query_string |-> input.query_string,
     headers |-> input.headers, body |-> input.body,
     rule |-> rule, uri_parameters |-> UriParameters(rule.url)]

\* RESTHandler.invoke from _get_input_value on: errors are the statuses
\* the conversion of input_data can raise, method_result is what the
\* provider returns
invoke_provider(req, service, found, collected, errors) ==
    /\ ds_mapping_type' = found.mapping_type
    /\ IF errors # {}
       THEN /\ \E status \in errors :
                 response' = Response("convert", status, NoneRec, found,
                                      DictValue(collected.data), FALSE, NoneRec)
            /\ context' = [application_context |-> "ctx", security_context |-> "ctx"]
       ELSE /\ \E method_result \in MethodResults :
                 response' =
                     Response("provider",
                              SerializeOutputStatus(
                                  req, OperationLookup(service, found.operation_id),
                                  method_result, all_errors_response_code_map),
                              SerializeOutputCookies(
                                  response_cookie_builder,
                                  ~HeadersContains(req.headers, REQUIRE_HEADER_AUTHN),
                                  req.rule.service_id, found.operation_id,
                                  method_result),
                              found, DictValue(collected.data), TRUE,
                              [service_id |-> req.rule.service_id,
                               operation_id |-> found.operation_id,
                               input_value |-> collected.data,
                               method_result |-> method_result])
            /\ context' = NoneRec

\* RESTHandler.invoke once input_data is collected
invoke_collected(req, service, found, collected) ==
    IF collected.status # NoneInt
    THEN /\ response' = Response("collect", collected.status, NoneRec, found,
                                 DictValue(collected.data), FALSE, NoneRec)
         /\ UNCHANGED <<context, ds_mapping_type>>
    ELSE invoke_provider(req, service, found, collected,
                         GenerateOperationInputErrors(service, found.operation_id,
                                                      collected.data))

\* RESTHandler.invoke once _find_matching_operation has answered
invoke_found(req, service, found) ==
    IF found.status # NoneInt
    THEN /\ response' = Response("find", found.status, NoneRec, found, NoneRec,
                                 FALSE, NoneRec)
         /\ UNCHANGED <<context, ds_mapping_type>>
    ELSE invoke_collected(req, service, found,
                          CollectInputData(req, service, found.operation_id,
                                           found.mapping_type, req.uri_parameters))

\* RESTHandler.invoke for the request req
invoke_request(req, service) ==
    /\ http_request' = req
    /\ invoke_found(req, service,
                    FindMatchingOperation(req, service, req.uri_parameters,
                                          UrlDecode(req.query_string),
                                          req.rule.dispatch_info_list))

\* RESTHandler.invoke(request, endpoint, uri_parameters), for a request
\* werkzeug routed to rule
invoke(rule, http_method, input) ==
    /\ served < MaxRequests
    /\ served' = served + 1
    /\ UNCHANGED <<service_map, all_errors_response_code_map,
                    response_cookie_builder, rest_rules>>
    /\ invoke_request(HttpRequest(rule, http_method, input),
                      service_map[rule.service_id])

RestNext ==
    \E rule \in rest_rules, input \in RequestInputs :
        \E http_method \in RuleMethods(rule) :
            invoke(rule, http_method, input) /\ UNCHANGED <<tmVars, thVars, ccVars>>

SpecRest == RestInit /\ [][RestNext]_vars

(***************************************************************************)
(* Route generation for one operation                                      *)
(***************************************************************************)
RuleServiceIds == {S_jobs, <<"a", "_", "b", ".", "C">>, SESSION_SERVICE}
RuleOperationIds ==
    {S_list, S_create, S_get, S_update, S_set, S_delete, S_start,
     S_get \o TASK_OPERATION}
RuleParamLists ==
    {<<>>,
     <<IdParam(S_id)>>,
     <<StringParam(S_name), IdParam(S_id)>>,
     <<IdParam(S_id), IdParam(<<"i", "d", "2">>)>>,
     <<StructParam(S_spec, <<StringParam(<<"a">>)>>), StringParam(S_name)>>}
RuleAnnotations ==
    {[request_mapping |-> NoneRec, verb |-> NoneRec],
     [request_mapping |-> RequestMapping(<<"/", "s", "/", "{", "i", "d", "}", "?", "a", "c", "t", "i", "o", "n", "=", "g", "o">>, "POST", NoneStr),
      verb |-> NoneRec],
     [request_mapping |-> NoneRec,
      verb |-> VerbMetadata("GET", <<"/", "v", "/", "{", "i", "d", "}">>, <<<<"q", "=", "1">>>>, NoneStr)],
     [request_mapping |-> RequestMapping(<<"/", "s", "/", "{", "i", "d", "}">>, "PUT", NoneStr),
      verb |-> VerbMetadata("GET", <<"/", "v", "/", "{", "i", "d", "}">>, <<<<"q", "=", "1">>>>, NoneStr)]}

\* the metadata store holds one operation of one service
RulesInit ==
    /\ \E service_id \in RuleServiceIds, operation_id \in RuleOperationIds,
          params \in RuleParamLists, annotation \in RuleAnnotations :
           service_map =
               (service_id :> ProcessServiceInfo(
                    service_id,
                    <<OperationInfo(operation_id, params, annotation.request_mapping,
                                    annotation.verb, NoneInt)>>))
    /\ all_errors_response_code_map = <<>>
    /\ response_cookie_builder = NoneRec
    /\ rest_rules = {}
    /\ http_request = NoneRec
    /\ response = NoneRec
    /\ context = NoneRec
    /\ ds_mapping_type = "unset"
    /\ served = 0
    \* the Task Manager takes no part in the generator's behaviours
    /\ task_map = <<>>
    /\ tasks_to_remove = {}
    /\ tasks_to_cancel = {}
    /\ clock = 0
    /\ uuid_count = 0
    /\ entered = [t \in TaskIds |-> NoTime]
    /\ last_call = [op |-> "init"]
    /\ handle = NoneRec
    /\ event = FALSE
    /\ publish_call = [op |-> "init"]
    /\ handle_calls = 0
    /\ created_with = <<>>
    /\ threads = <<>>
    /\ lock = None
    /\ last_write = NoneRec
    /\ task_manager = NoneRec

\* the summaries generate_mapping_rule is called with: rest_rules passes the
\* one the metadata store built; a direct caller of the method may pass one
\* that carries a predicate annotation whatever the store would have kept
CallerSummaries(summary) ==
    {summary,
     [summary EXCEPT !.verb_metadata =
         VerbMetadata("GET", <<"/", "v", "/", "{", "i", "d", "}">>, <<<<"q", "=", "1">>>>, NoneStr)]}

\* RoutingRuleGenerator.generate_mapping_rule(service_id, operation_id, summary)
generate_mapping_rule(service_id, operation_id, operation_summary) ==
    /\ http_request' = [service_id |-> service_id,
                   operation_id |-> operation_id,
                   operation_summary |-> operation_summary]
    /\ response' = GenerateMappingRule(service_id, operation_id, operation_summary)
    /\ UNCHANGED <<service_map, all_errors_response_code_map,
                    response_cookie_builder, rest_rules, context,
                    ds_mapping_type, served>>

\* the property RoutingRuleGenerator.rest_rules
rest_rules_get ==
    /\ rest_rules' = RestRules(service_map)
    /\ UNCHANGED <<service_map, all_errors_response_code_map,
                    response_cookie_builder, http_request, response, context,
                    ds_mapping_type, served>>

RulesNext ==
    \/ \E service_id \in DOMAIN service_map :
           \E i \in 1..Len(service_map[service_id]) :
               \E summary \in CallerSummaries(service_map[service_id][i].summary) :
                   generate_mapping_rule(service_id, service_map[service_id][i].id, summary) /\ UNCHANGED <<tmVars, thVars, ccVars>>
    \/ rest_rules_get /\ UNCHANGED <<tmVars, thVars, ccVars>>

SpecRules == RulesInit /\ [][RulesNext]_vars

(***************************************************************************)
(* Task Manager: properties                                                *)
(***************************************************************************)

\* C1: round trip of create_task / get_info. Right after a create_task call
\* that found no task stored under its task id (so the call did insert the
\* task it describes), get_info(returned id) succeeds and shows the service,
\* the operation and the cancelable flag of the call, with status PENDING.
C1_CreateGetInfoRoundTrip ==
    (last_call.op = "create_task" /\ ~last_call.existed) =>
        /\ last_call.ret \in DOMAIN task_map
        /\ GetInfo(task_map, last_call.ret) =
               [service |-> last_call.service, operation |-> last_call.operation,
                cancelable |-> last_call.cancelable, status |-> PENDING]

\* C2: cancellation invariant. A task that create_task has just inserted with
\* cancelable = False (no set_info has touched it yet) is not reported as
\* marked by is_marked_for_cancellation.
C2_NonCancelableNeverMarked ==
    (/\ last_call.op = "create_task"
     /\ ~last_call.existed
     /\ last_call.cancelable = FALSE
     /\ last_call.ret \in DOMAIN task_map) =>
        ~IsMarkedForCancellation(tasks_to_cancel, last_call.ret)

\* C3: expiry removal. After the sweep of a create_task call, no task whose
\* info was set to a terminal status (once) 24 hours ago or earlier is still
\* returned by get_infos, whatever other tasks are scheduled for removal.
C3_ExpiredAbsentAfterSweep ==
    last_call.op = "create_task" =>
        \A e \in tasks_to_remove :
            (/\ (clock - e[2]) >= TASK_EXPIRE_DURATION_SEC
             /\ \A f \in tasks_to_remove : f[1] = e[1] => f = e) =>
                e[1] \notin DOMAIN GetInfos(task_map)

\* C4: retention. Every task the sweep of a create_task call takes out of the
\* task map had a terminal status, entered at least 24 hours before.
C4_SweepRemovesOnlyExpiredTerminal ==
    last_call.op = "create_task" =>
        \A s \in last_call.swept :
            /\ s.status \in TerminalStatus
            /\ s.since # NoTime
            /\ (clock - s.since) >= TASK_EXPIRE_DURATION_SEC

(***************************************************************************)
(* Route generation: properties                                            *)
(***************************************************************************)
\* generate_mapping_rule has been applied to a CRUD operation that carries
\* neither a request mapping nor a verb annotation
CrudRouteGenerated ==
    /\ http_request # NoneRec
    /\ http_request.operation_id \in
           {<<"l", "i", "s", "t">>, <<"c", "r", "e", "a", "t", "e">>, <<"g", "e", "t">>, <<"u", "p", "d", "a", "t", "e">>, <<"s", "e", "t">>, <<"d", "e", "l", "e", "t", "e">>}
    /\ http_request.operation_summary.request_mapping_metadata = NoneRec
    /\ http_request.operation_summary.verb_metadata = NoneRec

\* the declared parameters of the identifier type, by position
IdentifierPositions ==
    LET params == http_request.operation_summary.param_info_map
    IN {i \in 1..Len(params) :
           params[i].category = BUILTIN /\ params[i].builtin_type = ID}

FirstIdentifierName ==
    LET params == http_request.operation_summary.param_info_map
    IN params[CHOOSE i \in IdentifierPositions :
                  \A j \in IdentifierPositions : i <= j].name

ExpectedCrudRoute ==
    LET op == http_request.operation_id
        base == GenerateServiceBaseUrl(http_request.service_id)
        with_id == base \o <<"/", "<", "s", "t", "r", "i", "n", "g", ":">> \o FirstIdentifierName \o <<">">>
    IN IF op = <<"l", "i", "s", "t">> THEN <<base, "GET">>
       ELSE IF op = <<"c", "r", "e", "a", "t", "e">> THEN <<base, "POST">>
       ELSE IF IdentifierPositions = {} THEN <<base, "POST">>
       ELSE IF op = <<"d", "e", "l", "e", "t", "e">> THEN <<with_id, "DELETE">>
       ELSE IF op = <<"g", "e", "t">> THEN <<with_id, "GET">>
       ELSE IF op = <<"u", "p", "d", "a", "t", "e">> THEN <<with_id, "PATCH">>
       ELSE <<with_id, "PUT">>

\* C8: the route generated for list is GET base, for create POST base, for
\* delete / get / update / set it is DELETE / GET / PATCH / PUT on base/{id}
\* when an identifier parameter exists and POST on base otherwise, {id}
\* naming the first declared parameter of the identifier type.
C8_CrudRouteTable ==
    CrudRouteGenerated =>
        /\ response.url = ExpectedCrudRoute[1]
        /\ response.method = ExpectedCrudRoute[2]
        /\ response.dispatch_info.operation_id = http_request.operation_id

\* the route of delete(name, id): the identifier is the second parameter
C8_Witness ==
    /\ CrudRouteGenerated
    /\ http_request.operation_id = <<"d", "e", "l", "e", "t", "e">>
    /\ IdentifierPositions = {2}
    /\ response.method = "DELETE"
    /\ response.url = GenerateServiceBaseUrl(http_request.service_id)
                          \o <<"/", "<", "s", "t", "r", "i", "n", "g", ":", "i", "d", ">">>


(***************************************************************************)
(* REST layer: properties                                                  *)
(***************************************************************************)
\* a request has been handled by RESTHandler.invoke
Handled == served > 0

\* the descriptors of the route of the request, and their verdicts
Descriptors == http_request.rule.dispatch_info_list
DescriptorIndexes == 1..Len(Descriptors)
Verdict(i) ==
    GetOperationId(Descriptors[i], http_request,
                   UrlDecode(http_request.query_string),
                   http_request.uri_parameters)
Matches(i) == Verdict(i).operation_id # NoneStr
Scored == ~IsFastPath(Descriptors)

\* the matching descriptors whose arity no matching descriptor exceeds
BestDescriptors ==
    {i \in DescriptorIndexes :
        /\ Matches(i)
        /\ \A j \in DescriptorIndexes :
               Matches(j) => Verdict(j).arity <= Verdict(i).arity}

\* C5: when the descriptors of a route are scored and two or more matching
\* descriptors share the highest arity, the operation selected is that of
\* the one appearing earliest in the route's descriptor list.  (Stated for
\* the requests for which the dispatcher selected an operation at all.)
C5_TieBreakFirstWins ==
    (Handled /\ Scored /\ response.selected # NoneStr
        /\ Cardinality(BestDescriptors) >= 2) =>
        LET first == CHOOSE i \in BestDescriptors :
                         \A j \in BestDescriptors : i <= j
        IN response.selected = Descriptors[first].operation_id

\* C6: on a scored route, if at least one descriptor matches then an
\* operation is selected, and it is the operation of a matching descriptor
\* of maximal arity, whatever integer the arity is.
C6_HighestArityWins ==
    (Handled /\ Scored /\ \E i \in DescriptorIndexes : Matches(i)) =>
        /\ response.selected # NoneStr
        /\ \E i \in BestDescriptors :
               response.selected = Descriptors[i].operation_id

\* C7 as stated: on every route, the single non-predicate descriptor
\* included, when no descriptor matches the request the answer is 404 and
\* the provider is not invoked.
C7_NoMatchNotFound ==
    (Handled /\ \A i \in DescriptorIndexes : ~Matches(i)) =>
        response.status = 404 /\ ~response.invoked

\* C7: on a scored route, when no descriptor matches the request the
\* answer is 404 and the provider is not invoked, and an operation is
\* selected only when its own descriptor matches; on a route holding a
\* single non-predicate descriptor that descriptor's operation is selected
\* without being matched.
C7_NoMatchNotFoundScored ==
    Handled =>
        /\ (Scored /\ \A i \in DescriptorIndexes : ~Matches(i)) =>
               response.status = 404 /\ ~response.invoked
        /\ (Scored /\ response.selected # NoneStr) =>
               \E i \in DescriptorIndexes :
                   Matches(i) /\ Descriptors[i].operation_id = response.selected
        /\ ~Scored => response.selected = Descriptors[1].operation_id

\* a scored route none of whose descriptors matches: the request is refused
C7_Witness ==
    /\ Handled /\ Scored
    /\ \A i \in DescriptorIndexes : ~Matches(i)
    /\ response.status = 404 /\ ~response.invoked

\* the operation id the claim derives from a request
DerivedOperationId ==
    LET action == DictGet(UrlDecode(http_request.query_string), TILDE_ACTION)
    IN IF action # NoneStr /\ action # <<>>
       THEN [i \in 1..Len(action) |-> IF action[i] = "-" THEN "_" ELSE action[i]]
       ELSE IF http_request.method = "GET" /\ http_request.uri_parameters # <<>>
       THEN <<"g", "e", "t">>
       ELSE CASE http_request.method = "GET" -> <<"l", "i", "s", "t">>
              [] http_request.method = "PATCH" -> <<"u", "p", "d", "a", "t", "e">>
              [] http_request.method = "DELETE" -> <<"d", "e", "l", "e", "t", "e">>
              [] http_request.method = "POST" -> <<"c", "r", "e", "a", "t", "e">>
              [] http_request.method = "PUT" -> <<"s", "e", "t">>
              [] http_request.method = "HEAD" -> <<"g", "e", "t">>

DefaultDescriptors ==
    {i \in DescriptorIndexes :
        Descriptors[i].mapping_type = RestAnnotationType_NONE}

StartStopRoute ==
    /\ DefaultDescriptors = DescriptorIndexes
    /\ \E i \in DescriptorIndexes : Descriptors[i].operation_id = S_start
    /\ \E i \in DescriptorIndexes : Descriptors[i].operation_id = S_stop

ActionIs(value) ==
    DictGet(UrlDecode(http_request.query_string), TILDE_ACTION) = value

\* the dispatcher chose operation_id, and the provider, when the input
\* converts, is invoked with it
Dispatched(operation_id) ==
    /\ response.selected = operation_id
    /\ response.stage # "find"
    /\ response.invoked => response.provider_call.operation_id = operation_id

\* C9: a descriptor without predicates matches a request iff its operation
\* id equals the id derived from the request (the ~action value with '-'
\* replaced by '_' when present and not empty, else get for a GET with path
\* parameters, else the entry of the verb); on a route holding the default
\* descriptors of start and stop, ~action=start is dispatched to start and
\* ~action=stop to stop.
C9_DefaultMatching ==
    Handled =>
        /\ \A i \in DefaultDescriptors :
               Matches(i) <=> Descriptors[i].operation_id = DerivedOperationId
        /\ (StartStopRoute /\ ActionIs(S_start)) => Dispatched(S_start)
        /\ (StartStopRoute /\ ActionIs(S_stop)) => Dispatched(S_stop)

\* ~action=start on the route of start and stop, dispatched to start
C9_Witness ==
    /\ Handled /\ StartStopRoute /\ ActionIs(S_start)
    /\ Dispatched(S_start) /\ response.invoked
    /\ \E i \in DefaultDescriptors :
           Descriptors[i].operation_id = S_stop /\ ~Matches(i)

\* the four sources of the input of a request, in increasing precedence
RequestService == service_map[http_request.rule.service_id]
PathSource ==
    MapUriParams(http_request.uri_parameters, RequestService,
                 response.operation_id).data
QuerySource == MapQueryParams(http_request, RequestService, response.operation_id).data
HeaderSource == MapHeaderParams(http_request, RequestService, response.operation_id).data
BodySource ==
    IF http_request.method \in {"PUT", "PATCH", "POST"}
           /\ http_request.body.kind = "json"
    THEN http_request.body.json ELSE <<>>
Sources == <<PathSource, QuerySource, HeaderSource, BodySource>>

RECURSIVE AscendingSeq(_)
AscendingSeq(S) ==
    IF S = {} THEN <<>>
    ELSE LET m == CHOOSE x \in S : \A y \in S : x <= y
         IN <<m>> \o AscendingSeq(S \ {m})

RECURSIVE MergedBy(_, _)
\* result is the merge of the dictionaries sources, later ones taking
\* precedence: under every key the value of the last source supplying it,
\* dictionaries supplied one after the other being merged by the same rule
MergedBy(sources, result) ==
    /\ DOMAIN result = UNION {DOMAIN sources[i] : i \in 1..Len(sources)}
    /\ \A key \in DOMAIN result :
           LET supplying == {i \in 1..Len(sources) : key \in DOMAIN sources[i]}
               top == CHOOSE i \in supplying : \A j \in supplying : j <= i
               run == {i \in supplying :
                          \A j \in supplying : j >= i => IsDict(sources[j][key])}
               order == AscendingSeq(run)
           IN IF ~IsDict(sources[top][key])
              THEN result[key].t = sources[top][key].t
                       /\ result[key] = sources[top][key]
              ELSE IsDict(result[key])
                       /\ MergedBy([n \in 1..Len(order) |-> sources[order[n]][key].v],
                                   result[key].v)

VerbInputCollected ==
    /\ Handled
    /\ response.input_data # NoneRec
    /\ response.mapping_type = RestAnnotationType_VERB

InputConverted == Handled /\ response.stage \in {"convert", "provider"}

\* the parameters the operation resolved for the request declares
DeclaredParams ==
    OperationLookup(RequestService, response.operation_id).param_info_map

\* name is a structure parameter given a dictionary holding a field the
\* structure does not declare
UndeclaredFieldIn(name) ==
    LET param_info == ParamLookup(DeclaredParams, name)
        json_value == response.input_data.v[name]
    IN /\ param_info # NoneRec
       /\ param_info.category = USER_DEFINED
       /\ IsDict(json_value)
       /\ \E field_name \in DOMAIN json_value.v :
              \A i \in 1..Len(param_info.fields) :
                  param_info.fields[i].name # field_name

\* the merged input holds a parameter name the operation does not declare
\* or a structure field its structure does not declare
HasUnknownField ==
    \E name \in DOMAIN response.input_data.v :
        \/ ParamLookup(DeclaredParams, name) = NoneRec
        \/ UndeclaredFieldIn(name)

\* C11: a request whose merged input holds a top-level parameter name the
\* resolved operation does not declare, or a structure field the structure
\* does not declare, is answered 400 and the provider is not invoked.
C11_UnknownFieldBadRequest ==
    (InputConverted /\ HasUnknownField) =>
        response.status = 400 /\ ~response.invoked

\* the provider was invoked for the request and returned a success
ProviderSucceeded ==
    /\ Handled /\ response.invoked
    /\ response.provider_call.method_result.success

\* the provider was invoked for the request and returned an error
ProviderFailed ==
    /\ Handled /\ response.invoked
    /\ ~response.provider_call.method_result.success

\* the success status the operation invoked declares, NoneInt when none
DeclaredSuccessCode ==
    OperationLookup(RequestService, response.operation_id).success_response_code

\* C12: for a successful provider result the status is the success status
\* the operation declares, whatever the verb of the request; when the
\* operation declares none it is 204 for DELETE and 200 for any other verb.
C12_SuccessStatus ==
    ProviderSucceeded =>
        response.status =
            IF DeclaredSuccessCode # NoneInt THEN DeclaredSuccessCode
            ELSE IF http_request.method = "DELETE" THEN 204 ELSE 200

\* the error structures of the metamodel that declare a status
DeclaringErrors ==
    {i \in 1..Len(StructureInfos) :
        /\ StructureInfos[i].type = "ERROR"
        /\ StructureInfos[i].response_code # NoneInt}

\* the status the claim gives to the error called name
ExpectedErrorStatus(name) ==
    IF \E i \in DeclaringErrors : StructureInfos[i].id = name
    THEN StructureInfos[CHOOSE i \in DeclaringErrors :
                            StructureInfos[i].id = name].response_code
    ELSE IF name \in DOMAIN vapi_to_http_error_map
    THEN vapi_to_http_error_map[name]
    ELSE 500

\* C13: for a provider error the status is the one the error structure
\* declares when it declares one, otherwise the entry of the static table
\* for the error name, otherwise 500; the response carries no cookies.
C13_ErrorStatus ==
    ProviderFailed =>
        /\ response.status =
               ExpectedErrorStatus(response.provider_call.method_result.error_name)
        /\ response.cookies = NoneRec

\* a session login method, on a handler that builds cookies, answered by
\* the provider with the error declaring 409, which the static table maps
\* to 400
C13_Witness ==
    /\ ProviderFailed
    /\ response_cookie_builder # NoneRec
    /\ ~HeadersContains(http_request.headers, REQUIRE_HEADER_AUTHN)
    /\ (http_request.rule.service_id \o <<".">> \o response.operation_id)
           \in SessionMethods
    /\ response.provider_call.method_result.error_name = E_already_exists
    /\ response.status = 409

\* the value of the task query parameter of the request, NoneStr when absent
TaskParam == DictGet(UrlDecode(http_request.query_string), TASK_REST_QUERY_PARAM)
TaskRequested == TaskParam # NoneStr /\ Lower(TaskParam) = <<"t", "r", "u", "e">>

\* an operation was chosen from the descriptors of the route
Resolved == Handled /\ response.selected # NoneStr

\* the operation id of the request after the task rewrite
RewrittenOperationId ==
    IF TaskRequested THEN response.selected \o TASK_OPERATION
    ELSE response.selected

\* C14: when the operation id resolved for a routed request, after the
\* task rewrite, is absent from the operation table of the service, the
\* request fails with 500, not with 400 or 404.
C14_MissingOperationServerError ==
    (/\ Resolved
     /\ TaskParam # NoneStr => TaskRequested
     /\ ~OperationIn(RequestService, RewrittenOperationId)) =>
        response.status = 500

\* C15: the provider is invoked with the task variant of the resolved
\* operation id exactly when the request carries vmw-task with the value
\* true in any letter case; without the parameter it is invoked with the
\* resolved id; with any other value the request fails with 400 and the
\* provider is not invoked.
C15_TaskRewrite ==
    Resolved =>
        /\ response.invoked =>
               /\ response.provider_call.operation_id = RewrittenOperationId
               /\ (response.provider_call.operation_id
                       = response.selected \o TASK_OPERATION) <=> TaskRequested
        /\ (TaskParam # NoneStr /\ ~TaskRequested) =>
               response.status = 400 /\ ~response.invoked

\* vmw-task=True on the route of get: the provider runs get$task
C15_Witness ==
    /\ Resolved /\ response.invoked
    /\ TaskParam = <<"T", "r", "u", "e">>
    /\ response.selected = S_get
    /\ response.provider_call.operation_id = <<"g", "e", "t", "$", "t", "a", "s", "k">>

(***************************************************************************)
(* Task Handle (vmware/vapi/task/task_handle.py).  Optional fields of the  *)
(* info (description, error, result) hold NoneRec for Python's None.       *)
(***************************************************************************)
INTERNAL_SERVER_ERROR == "com.vmware.vapi.std.errors.internal_server_error"
INVALID_ERROR_MSG == "vapi.task.invalid.error"
INVALID_RESULT_MSG == "vapi.task.invalid.result"

\* an error value of the given type, with the messages it carries
ErrorValue(type, messages) == [type |-> type, messages |-> messages]

\* a LocalizableMessage; create_task stores one with empty id and default
\* message when it is given no description
LocalizableMessage(id, default_message) == [id |-> id, default_message |-> default_message]
EmptyDescription == LocalizableMessage("", "")

\* a result as the provider assigns it, and its DataValue after conversion
PyResult == [form |-> "python", value |-> "r"]
ConvertToVapi(result) == [result EXCEPT !.form = "vapi"]

\* how one TypeConverter.convert_to_vapi attempt can end
ConversionOutcomes == {"ok", "AttributeError", "CoreException"}

\* values provider code assigns to the fields of handle.info
ProviderAssignments ==
    [service |-> {"evil.svc"},
     operation |-> {"evil.op"},
     status |-> StatusValues,
     error |-> {NoneRec, ErrorValue("not_found", <<"provider">>),
                ErrorValue("boom", <<"provider">>)},
     result |-> {NoneRec, PyResult},
     description |-> {NoneRec, LocalizableMessage("d", "")}]

InList(x, list) == \E i \in 1..Len(list) : list[i] = x

\* TaskHandle._override_api_info
OverrideApiInfoKeep(info, published_info) == info
OverrideApiInfo(info, published_info) == [info EXCEPT !.service = published_info.service, !.operation = published_info.operation]

\* TaskHandle.__init__ / _initialize_common_info: info_type() has every
\* field unset, the common fields are read from the published info
InitializeCommonInfo(published_info) ==
    OverrideApiInfo(
        [service |-> None, operation |-> None,
         cancelable |-> published_info.cancelable,
         description |-> IF "description" \in DOMAIN published_info
                         THEN published_info.description ELSE EmptyDescription,
         status |-> published_info.status,
         error |-> NoneRec, result |-> NoneRec],
        published_info)

\* publish, lines 115-123: the message list after the check of the error type
ErrorCheckNone(info, error_types) == None
ErrorCheck(info, error_types) == IF info.error # NoneRec /\ ~InList(info.error.type, error_types) THEN INVALID_ERROR_MSG ELSE None

\* publish, lines 125-146: what the two conversion attempts leave behind;
\* only AttributeError is caught around the first attempt and only
\* CoreException around the second
ResultConversion(info, result_opaque, first, second, msg_list) ==
    IF info.result = NoneRec \/ ~result_opaque
    THEN [raised |-> None, msg_list |-> msg_list, result |-> info.result]
    ELSE IF first = "ok" \/ (first = "AttributeError" /\ second = "ok")
    THEN [raised |-> None, msg_list |-> msg_list,
          result |-> IF msg_list = None THEN ConvertToVapi(info.result)
                     ELSE info.result]
    ELSE IF first # "AttributeError"
    THEN [raised |-> first, msg_list |-> msg_list, result |-> info.result]
    ELSE IF second = "CoreException"
    THEN [raised |-> None, msg_list |-> INVALID_RESULT_MSG, result |-> NoneRec]
    ELSE [raised |-> second, msg_list |-> msg_list, result |-> info.result]

\* publish, lines 148-157: the StructValue handed to set_info
StoredInfo(info, msg_list) ==
    IF msg_list = None THEN info
    ELSE [info EXCEPT !.status = FAILED,
                      !.error = ErrorValue(INTERNAL_SERVER_ERROR, <<msg_list>>)]

\* publish, lines 166-167
DescriptionMissing(desc) == desc = NoneRec \/ (desc.id = "" /\ desc.default_message = "")

\* what is remembered of a publish call: how it ended, whether the provider
\* had assigned the api fields, its error, and the conversion attempts made
Attempts(first, second) ==
    IF handle.info.result = NoneRec \/ ~handle.result_opaque THEN <<>>
    ELSE IF first = "AttributeError" THEN <<first, second>> ELSE <<first>>

PublishCall(accept, first, second, raised, stage, published_info) ==
    [op |-> "publish", accept |-> accept, attempts |-> Attempts(first, second),
     assigned |-> {f \in {"service", "operation"} :
                       published_info # NoneRec /\ handle.info[f] # published_info[f]},
     error |-> handle.info.error, status |-> handle.info.status,
     raised |-> raised, stage |-> stage]

\* the arguments of the create_task that inserted each task of the map
CreatedWith(map_after, args) ==
    [t \in DOMAIN map_after |-> IF t \in DOMAIN task_map THEN created_with[t] ELSE args]

\* get_task_handle(info_type, result_type) in a thread whose context holds
\* task_id; result_opaque tells whether info_type declares an opaque result
get_task_handle(task_id, result_opaque) ==
    /\ IF task_id \notin DOMAIN task_map
       THEN /\ publish_call' = [op |-> "get_task_handle", raised |-> "KeyError"]
            /\ UNCHANGED handle
       ELSE /\ handle' = [task_id |-> task_id,
                          error_types |-> task_map[task_id].errors,
                          result_opaque |-> result_opaque,
                          info |-> InitializeCommonInfo(GetInfo(task_map, task_id))]
            /\ publish_call' = [op |-> "get_task_handle", raised |-> None]
    /\ UNCHANGED <<tmVars, event, handle_calls, created_with>>

\* provider code assigns a field of the info get_info() returned
assign(field, value) ==
    /\ handle # NoneRec
    /\ handle_calls < MaxHandleCalls
    /\ handle' = [handle EXCEPT !.info[field] = value]
    /\ publish_call' = [op |-> "assign"]
    /\ handle_calls' = handle_calls + 1
    /\ UNCHANGED <<tmVars, event, created_with>>

\* publish from line 148 on, once the conversion attempts returned
publish_store(accept, first, second, info, msg_list) ==
    /\ set_info(handle.task_id, StoredInfo(info, msg_list))
    /\ handle' = [handle EXCEPT !.info = info]
    /\ event' = IF accept THEN TRUE ELSE event
    /\ publish_call' =
          PublishCall(accept, first, second,
                      IF accept /\ DescriptionMissing(info.description)
                      THEN "CoreException" ELSE None,
                      IF accept THEN "accept" ELSE "set_info",
                      GetInfo(task_map, handle.task_id))
    /\ UNCHANGED created_with

\* publish from line 125 on
publish_convert(accept, first, second, info, conversion) ==
    IF conversion.raised # None
    THEN /\ handle' = [handle EXCEPT !.info = info]
         /\ publish_call' = PublishCall(accept, first, second, conversion.raised,
                                        "convert", GetInfo(task_map, handle.task_id))
         /\ UNCHANGED <<tmVars, event, created_with>>
    ELSE publish_store(accept, first, second,
                       [info EXCEPT !.result = conversion.result],
                       conversion.msg_list)

\* publish from line 113 on
publish_found(accept, first, second, info) ==
    publish_convert(accept, first, second, info,
                    ResultConversion(info, handle.result_opaque, first, second,
                                     ErrorCheck(info, handle.error_types)))

\* publish(accept); first and second are the ends of the conversion attempts
publish(accept, first, second) ==
    /\ handle # NoneRec
    /\ handle_calls < MaxHandleCalls
    /\ handle_calls' = handle_calls + 1
    /\ IF handle.task_id \notin DOMAIN task_map
       THEN /\ publish_call' = PublishCall(accept, first, second, "KeyError",
                                           "get_info", NoneRec)
            /\ UNCHANGED <<tmVars, handle, event, created_with>>
       ELSE publish_found(accept, first, second,
                          OverrideApiInfo(handle.info,
                                          GetInfo(task_map, handle.task_id)))

\* the provider's side of the Task Manager: the task of the running
\* operation, a cancelable one, is created under a caller-supplied id and
\* may be removed
THInit ==
    /\ task_map = <<>>
    /\ tasks_to_remove = {}
    /\ tasks_to_cancel = {}
    /\ clock = 0
    /\ uuid_count = 0
    /\ entered = [t \in TaskIds |-> NoTime]
    /\ last_call = [op |-> "init"]
    /\ handle = NoneRec
    /\ event = FALSE
    /\ publish_call = [op |-> "init"]
    /\ handle_calls = 0
    /\ created_with = <<>>
    /\ threads = <<>>
    /\ lock = None
    /\ last_write = NoneRec
    /\ task_manager = NoneRec
    /\ service_map = <<>>
    /\ all_errors_response_code_map = <<>>
    /\ response_cookie_builder = NoneRec
    /\ rest_rules = {}
    /\ http_request = NoneRec
    /\ response = NoneRec
    /\ context = NoneRec
    /\ ds_mapping_type = "unset"
    /\ served = 0

THNext ==
    \/ \E s \in ServiceIds, o \in OperationIds, e \in ErrorTypeInputs, i \in BaseIds : create_task(s, o, TRUE, e, i) /\ created_with' = CreatedWith(task_map', [service |-> s, operation |-> o]) /\ publish_call' = [op |-> "create_task"] /\ UNCHANGED <<restVars, ccVars, handle, event, handle_calls>>
    \/ \E t \in TaskIds : remove_task(t) /\ created_with' = CreatedWith(task_map', NoneRec) /\ publish_call' = [op |-> "remove_task"] /\ UNCHANGED <<restVars, ccVars, handle, event, handle_calls>>
    \/ \E t \in TaskIds, o \in BOOLEAN : get_task_handle(t, o) /\ UNCHANGED <<restVars, ccVars>>
    \/ \E f \in DOMAIN ProviderAssignments : \E v \in ProviderAssignments[f] : assign(f, v) /\ UNCHANGED <<restVars, ccVars>>
    \/ \E a \in BOOLEAN, first \in ConversionOutcomes, second \in ConversionOutcomes : publish(a, first, second) /\ UNCHANGED <<restVars, ccVars>>

SpecTaskHandle == THInit /\ [][THNext]_vars

(***************************************************************************)
(* Task Manager: cancellation marks and the task lifecycle                 *)
(***************************************************************************)
StatusOf(task_id) == task_map[task_id].info.status

\* C16: no task whose published status is SUCCEEDED or FAILED is marked for
\* cancellation: whenever a task of the task map has a terminal status, its
\* id is not in tasks_to_cancel.
C16_TerminalNeverMarked ==
    \A t \in DOMAIN task_map :
        StatusOf(t) \in TerminalStatus => ~IsMarkedForCancellation(tasks_to_cancel, t)

\* C17: once the published status of a task is SUCCEEDED or FAILED, a later
\* set_info on that task leaves the status as it is.
C17_TerminalIsFinal ==
    [][\A t \in DOMAIN task_map :
          (/\ StatusOf(t) \in TerminalStatus
           /\ last_call'.op = "set_info"
           /\ t \in DOMAIN task_map')
          => task_map'[t].info.status = StatusOf(t)]_vars

(***************************************************************************)
(* Task Handle: properties of publish                                      *)
(***************************************************************************)
Published == publish_call.op = "publish"

\* the publish call reached set_info
PublishStored == Published /\ publish_call.stage \in {"set_info", "accept"}

\* the info the Task Manager holds for the handle's task
StoredField(f) ==
    IF f \in DOMAIN GetInfo(task_map, handle.task_id)
    THEN GetInfo(task_map, handle.task_id)[f] ELSE NoneRec

\* C18: after every publish that stores an info, the stored info's service
\* and operation are the arguments of the create_task that made the task,
\* whatever the provider assigned to the handle's service and operation.
C18_ApiInfoProviderProof ==
    PublishStored =>
        /\ StoredField("service") = created_with[handle.task_id].service
        /\ StoredField("operation") = created_with[handle.task_id].operation

\* a second or later handle call is a publish that stored an info although
\* the provider had assigned both fields
C18_Witness ==
    /\ PublishStored
    /\ publish_call.assigned = {"service", "operation"}
    /\ handle_calls >= 3
    /\ StoredField("operation") \in OperationIds

Declared(error) == InList(error.type, handle.error_types)
DowngradedToInternalError ==
    /\ StoredField("status") = FAILED
    /\ StoredField("error") # NoneRec
    /\ StoredField("error").type = INTERNAL_SERVER_ERROR
ProviderErrorStored ==
    /\ StoredField("status") = publish_call.status
    /\ StoredField("error") = publish_call.error

\* the publish call is made on a task that is still in the task map
PublishOnTask == Published /\ publish_call.stage # "get_info"

\* a conversion of the result was attempted and the last attempt failed
ConversionFailed ==
    /\ publish_call.attempts # <<>>
    /\ publish_call.attempts[Len(publish_call.attempts)] # "ok"

C20_ConversionFailureDegrades ==
    (PublishOnTask /\ ConversionFailed) =>
        /\ publish_call.stage # "convert"
        /\ DowngradedToInternalError

\* a step that is a publish call
PublishStep == publish_call'.op = "publish" /\ handle_calls' # handle_calls

\* C21: a publish(accept=True) that reaches the description check with an
\* absent or empty description raises and does not signal the event; the
\* event is signalled only by a publish(accept=True) whose description has an
\* id or a default message, never by publish(accept=False).
C21_AcceptRequiresDescription ==
    [][PublishStep =>
          /\ (/\ publish_call'.stage = "accept"
              /\ DescriptionMissing(handle'.info.description))
             => (publish_call'.raised = "CoreException" /\ event' = event)
          /\ (event' # event)
             => (/\ publish_call'.accept
                 /\ ~DescriptionMissing(handle'.info.description))]_vars

(***************************************************************************)
(* Routing Rule Generator: rule priority and the route table               *)
(***************************************************************************)
RouteGenerated == http_request # NoneRec /\ "operation_summary" \in DOMAIN http_request

\* the rule the priority order names for an operation
PriorityRule(service_id, operation_id, summary) ==
    IF summary.request_mapping_metadata # NoneRec THEN "CustomRequestMappingRule"
    ELSE IF summary.verb_metadata # NoneRec /\ service_id # SESSION_SERVICE
    THEN "VerbMappingRule"
    ELSE IF operation_id = <<"l", "i", "s", "t">> THEN "ListMappingRule"
    ELSE IF operation_id = <<"c", "r", "e", "a", "t", "e">> THEN "PostMappingRule"
    ELSE IF operation_id = <<"d", "e", "l", "e", "t", "e">> THEN "DeleteMappingRule"
    ELSE IF operation_id = <<"g", "e", "t">> THEN "GetMappingRule"
    ELSE IF operation_id = <<"u", "p", "d", "a", "t", "e">> THEN "PatchMappingRule"
    ELSE IF operation_id = <<"s", "e", "t">> THEN "PutMappingRule"
    ELSE "PostActionMappingRule"

\* the descriptors a route table holds, over all its routes
RECURSIVE DescriptorCount(_)
DescriptorCount(rules) ==
    IF rules = {} THEN 0
    ELSE LET rule == CHOOSE r \in rules : TRUE
         IN Len(rule.dispatch_info_list) + DescriptorCount(rules \ {rule})

TableGenerated == rest_rules # {}

\* C22: generate_mapping_rule returns, never None, the route built by the
\* first rule of the order custom request mapping, predicate, list, create,
\* delete, get, update, set, custom action that matches the operation, the
\* predicate rule being left out for the session service; the table of a
\* metamodel with one operation holds one route with one descriptor.
C22_RulePriority ==
    /\ RouteGenerated =>
          /\ response # NoneRec
          /\ response = RuleUrl(PriorityRule(http_request.service_id,
                                             http_request.operation_id,
                                             http_request.operation_summary),
                                http_request.service_id,
                                http_request.operation_id,
                                http_request.operation_summary)
    /\ TableGenerated =>
          /\ Cardinality(rest_rules) = 1
          /\ DescriptorCount(rest_rules) = 1

\* an operation of the session service carrying a predicate annotation got
\* the route of the get rule
C22_Witness ==
    /\ RouteGenerated
    /\ http_request.service_id = SESSION_SERVICE
    /\ http_request.operation_id = <<"g", "e", "t">>
    /\ http_request.operation_summary.verb_metadata # NoneRec
    /\ http_request.operation_summary.request_mapping_metadata = NoneRec
    /\ response.dispatch_info.mapping_type = RestAnnotationType_NONE
    /\ TableGenerated

\* a descriptor with no predicate annotation, no declared query or header
\* predicate and no fixed action value
UnconditionalDefault(dispatch_info) ==
    /\ dispatch_info.mapping_type # RestAnnotationType_VERB
    /\ dispatch_info.params = <<>>
    /\ dispatch_info.headers = <<>>
    /\ dispatch_info.action_value = NoneStr

UnconditionalDefaults(rule) ==
    {i \in 1..Len(rule.dispatch_info_list) :
        UnconditionalDefault(rule.dispatch_info_list[i])}

\* C23: every route of the generated table holds at most one descriptor that
\* is an unconditional default; its other descriptors carry a predicate
\* annotation, declared predicates or a fixed action value.
C23_RouteInvariant ==
    \A rule \in rest_rules : Cardinality(UnconditionalDefaults(rule)) <= 1

(***************************************************************************)
(* Predicate matching of one descriptor against one request                *)
(***************************************************************************)
\* the predicates a descriptor declares, and the requests it is matched with
MatchParamLists ==
    {<<>>, <<<<"q">>>>, <<<<"q", "=", "1">>>>, <<<<"q", "=">>>>, <<<<"q">>, <<"p", "=", "2">>>>, <<<<" ", "q", " ", "=", "1">>>>}
MatchHeaderLists ==
    {<<>>, <<<<"X", "-", "H">>>>, <<<<"X", "-", "H", ":", "v">>>>, <<<<"X", "-", "H", ":", "a", ",", " ", "b">>>>, <<<<"X", "-", "H", " ", ":", " ", "v">>>>, <<<<"X", "-", "H">>, <<"Y", ":", "w">>>>}
MatchQueries ==
    {<<>>, (<<"q">> :> <<"1">>), (<<"q">> :> <<"2">>), (<<"q">> :> <<>>),
     (<<"q">> :> <<"1">>) @@ (<<"p">> :> <<"2">>), (<<"p">> :> <<"3">>)}
MatchHeaders ==
    {<<>>, <<<<<<"X", "-", "H">>, <<"v">>>>>>, <<<<<<"x", "-", "h">>, <<"w">>>>>>, <<<<<<"X", "-", "H">>, <<"b", " ", ",", "a", ",", " ", "b">>>>>>,
     <<<<<<"X", "-", "H">>, <<"v">>>>, <<<<"Y">>, <<"z">>>>>>}

VMInit ==
    /\ \E params \in MatchParamLists, headers \in MatchHeaderLists, query_params \in MatchQueries, request_headers \in MatchHeaders : http_request = [self |-> DispatchInfo(RestAnnotationType_VERB, <<"o", "p">>, params, headers, NoneStr), query_params |-> query_params, headers |-> request_headers]
    /\ response = NoneRec
    /\ service_map = <<>>
    /\ all_errors_response_code_map = <<>>
    /\ response_cookie_builder = NoneRec
    /\ rest_rules = {}
    /\ context = NoneRec
    /\ ds_mapping_type = "unset"
    /\ served = 0
    /\ task_map = <<>>
    /\ tasks_to_remove = {}
    /\ tasks_to_cancel = {}
    /\ clock = 0
    /\ uuid_count = 0
    /\ entered = [t \in TaskIds |-> NoTime]
    /\ last_call = [op |-> "init"]
    /\ handle = NoneRec
    /\ event = FALSE
    /\ publish_call = [op |-> "init"]
    /\ handle_calls = 0
    /\ created_with = <<>>
    /\ threads = <<>>
    /\ lock = None
    /\ last_write = NoneRec
    /\ task_manager = NoneRec

\* DispatchInfo._verb_matching(query_params, headers)
verb_matching ==
    /\ response = NoneRec
    /\ response' = VerbMatching(http_request.self, http_request.query_params, http_request.headers)
    /\ UNCHANGED <<service_map, all_errors_response_code_map, response_cookie_builder, rest_rules, http_request, context, ds_mapping_type, served>>

VMNext == verb_matching /\ UNCHANGED <<tmVars, thVars, ccVars>>

SpecVerbMatching == VMInit /\ [][VMNext]_vars

\* the key and the required value of a declared predicate "key<sep>value"
PredicateKey(predicate, sep) == Strip(Split(predicate, sep)[1])
PredicateDeclaresValue(predicate, sep) == Len(Split(predicate, sep)) > 1
PredicateValue(predicate, sep) == Split(predicate, sep)[2]

\* the evaluation of one predicate as the scheme words it: the gain for the
\* key, the gain for the value, and whether the predicate aborts
QueryPredicate(predicate, query_params) ==
    LET key == PredicateKey(predicate, "=")
        present == key \in DOMAIN query_params
        equal == /\ PredicateDeclaresValue(predicate, "=")
                 /\ present
                 /\ query_params[key] = PredicateValue(predicate, "=")
    IN [gain |-> (IF present THEN 3 ELSE 0 - 1) + (IF equal THEN 4 ELSE 0),
        abort |-> /\ present
                  /\ PredicateDeclaresValue(predicate, "=")
                  /\ PredicateValue(predicate, "=") # <<>>
                  /\ ~equal]

HeaderPredicate(predicate, headers) ==
    LET key == PredicateKey(predicate, ":")
        present == HeadersContains(headers, key)
        matching == /\ PredicateDeclaresValue(predicate, ":")
                    /\ present
                    /\ Contains(CommaNormalize(HeadersGet(headers, key)),
                                CommaNormalize(PredicateValue(predicate, ":")))
    IN [gain |-> (IF present THEN 1 ELSE 0 - 1) + (IF matching THEN 2 ELSE 0),
        abort |-> /\ present
                  /\ PredicateDeclaresValue(predicate, ":")
                  /\ CommaNormalize(PredicateValue(predicate, ":")) # <<>>
                  /\ ~matching]

\* the evaluations of the query predicates followed by the header predicates
PredicateEvaluations(self, query_params, headers) ==
    [i \in 1..Len(self.params) |-> QueryPredicate(self.params[i], query_params)]
        \o [i \in 1..Len(self.headers) |-> HeaderPredicate(self.headers[i], headers)]

RECURSIVE GainUpTo(_, _)
GainUpTo(evaluations, n) ==
    IF n = 0 THEN 0 ELSE evaluations[n].gain + GainUpTo(evaluations, n - 1)

\* no-match with the arity accumulated up to the first aborting predicate,
\* match with the total when none aborts
SchemeVerdict(evaluations) ==
    IF \E i \in 1..Len(evaluations) : evaluations[i].abort
    THEN [match |-> FALSE,
          arity |-> GainUpTo(evaluations,
                             CHOOSE i \in 1..Len(evaluations) :
                                 /\ evaluations[i].abort
                                 /\ \A j \in 1..(i - 1) : ~evaluations[j].abort)]
    ELSE [match |-> TRUE, arity |-> GainUpTo(evaluations, Len(evaluations))]

\* C24: the verdict and the arity _verb_matching returns for a descriptor
\* and a request are those of the scheme: +3 / -1 for a present / absent
\* query key, +4 more for an equal required value, no-match with the partial
\* arity at the first present key whose non-empty required value differs,
\* then the same with +1 / -1 / +2 over the header predicates, and
\* match with the total when no predicate aborted.
C24_PredicateArity ==
    (response # NoneRec /\ "self" \in DOMAIN http_request) =>
        response = SchemeVerdict(PredicateEvaluations(http_request.self,
                                                      http_request.query_params,
                                                      http_request.headers))

(***************************************************************************)
(* Task Manager under concurrent callers: every method is cut at its lock  *)
(* boundaries; a thread runs one call at a time, the steps of different    *)
(* threads interleave.                                                     *)
(***************************************************************************)
Threads == {"t1", "t2"}
Idle == [pc |-> "idle"]

\* the calls the threads make, all on the task id a:svc
LockTaskId == CreateTaskId("a", "svc")
LockInfoInputs == {i \in InfoInputs : i.operation = "op1" /\ i.cancelable}
LockCalls ==
    {[pc |-> "create_task:with", task_id |-> LockTaskId],
     [pc |-> "remove_task:with", task_id |-> LockTaskId],
     [pc |-> "mark_for_cancellation:get_info", task_id |-> LockTaskId]}
    \cup {[pc |-> "set_info:assign", task_id |-> LockTaskId, info |-> i] : i \in LockInfoInputs}

\* the statement after the with block a thread is about to enter
WithBody ==
    [x \in {"create_task:with", "sweep:with", "set_info:with", "remove_task:with", "mark_for_cancellation:with"} |->
        CASE x = "create_task:with" -> "create_task:setdefault"
          [] x = "sweep:with" -> "sweep:loop"
          [] x = "set_info:with" -> "set_info:bookkeeping"
          [] x = "remove_task:with" -> "remove_task:pop"
          [] x = "mark_for_cancellation:with" -> "mark_for_cancellation:add"]

At(th, label) == threads[th].pc = label
Goto(th, label) == threads' = [threads EXCEPT ![th].pc = label]
Return(th) == threads' = [threads EXCEPT ![th] = Idle]

\* a write to the shared state by thread th, and whether th holds the lock
Write(th, method) == [method |-> method, locked |-> lock = th]

LockInit ==
    /\ task_map = <<>>
    /\ tasks_to_remove = {}
    /\ tasks_to_cancel = {}
    /\ clock = 0
    /\ uuid_count = 0
    /\ entered = [t \in TaskIds |-> NoTime]
    /\ last_call = [op |-> "init"]
    /\ threads = [th \in Threads |-> Idle]
    /\ lock = None
    /\ last_write = NoneRec
    /\ task_manager = NoneRec
    /\ handle = NoneRec
    /\ event = FALSE
    /\ publish_call = [op |-> "init"]
    /\ handle_calls = 0
    /\ created_with = <<>>
    /\ service_map = <<>>
    /\ all_errors_response_code_map = <<>>
    /\ response_cookie_builder = NoneRec
    /\ rest_rules = {}
    /\ http_request = NoneRec
    /\ response = NoneRec
    /\ context = NoneRec
    /\ ds_mapping_type = "unset"
    /\ served = 0

\* a thread enters one of the four methods
lock_call(th, call) ==
    /\ At(th, "idle")
    /\ threads' = [threads EXCEPT ![th] = call]
    /\ UNCHANGED <<task_map, tasks_to_remove, tasks_to_cancel, lock, last_write>>

\* with self.lock: RLock.acquire, by a thread that does not hold it yet
lock_acquire(th) ==
    /\ threads[th].pc \in DOMAIN WithBody
    /\ lock = None
    /\ lock' = th
    /\ Goto(th, WithBody[threads[th].pc])
    /\ UNCHANGED <<task_map, tasks_to_remove, tasks_to_cancel, last_write>>

\* create_task, lines 105-106, then on to _remove_expired_task
create_task_setdefault(th) ==
    /\ At(th, "create_task:setdefault")
    /\ task_map' = DictSetDefault(task_map, threads[th].task_id, TaskSummary(NewTaskInfo("svc", "op1", TRUE), <<"not_found">>))
    /\ last_write' = Write(th, "create_task")
    /\ lock' = None
    /\ Goto(th, "sweep:with")
    /\ UNCHANGED <<tasks_to_remove, tasks_to_cancel>>

\* _remove_expired_task, lines 190-199
remove_expired_task_loop(th) ==
    /\ At(th, "sweep:loop")
    /\ \E order \in IterationOrders(tasks_to_remove) :
          /\ task_map' = RemoveExpiredTask(task_map, tasks_to_remove, entered, clock, order).map
          /\ tasks_to_remove' = RemoveExpiredTask(task_map, tasks_to_remove, entered, clock, order).to_remove
    /\ last_write' = IF tasks_to_remove' # tasks_to_remove THEN Write(th, "_remove_expired_task") ELSE last_write
    /\ lock' = None
    /\ Return(th)
    /\ UNCHANGED tasks_to_cancel

\* set_info, line 144 and the test of line 145
set_info_assign(th) ==
    /\ At(th, "set_info:assign")
    /\ IF threads[th].task_id \notin DOMAIN task_map
       THEN Return(th) /\ UNCHANGED <<task_map, last_write>>
       ELSE /\ task_map' = [task_map EXCEPT ![threads[th].task_id].info = threads[th].info]
            /\ last_write' = Write(th, "set_info")
            /\ IF threads[th].info.status \in {SUCCEEDED, FAILED}
               THEN Goto(th, "set_info:with") ELSE Return(th)
    /\ UNCHANGED <<tasks_to_remove, tasks_to_cancel, lock>>

\* set_info, lines 148-149
set_info_bookkeeping(th) ==
    /\ At(th, "set_info:bookkeeping")
    /\ \/ <<threads[th].task_id, clock>> \in tasks_to_remove
       \/ Cardinality(tasks_to_remove) < MaxToRemove
    /\ tasks_to_remove' = tasks_to_remove \cup {<<threads[th].task_id, clock>>}
    /\ tasks_to_cancel' = tasks_to_cancel \ {threads[th].task_id}
    /\ last_write' = Write(th, "set_info")
    /\ lock' = None
    /\ Return(th)
    /\ UNCHANGED task_map

\* remove_task, line 184
remove_task_pop(th) ==
    /\ At(th, "remove_task:pop")
    /\ task_map' = DictPop(task_map, threads[th].task_id)
    /\ last_write' = Write(th, "remove_task")
    /\ lock' = None
    /\ Return(th)
    /\ UNCHANGED <<tasks_to_remove, tasks_to_cancel>>

\* mark_for_cancellation, lines 220-221
mark_for_cancellation_get_info(th) ==
    /\ At(th, "mark_for_cancellation:get_info")
    /\ IF threads[th].task_id \in DOMAIN task_map /\ GetInfo(task_map, threads[th].task_id).cancelable = TRUE
       THEN Goto(th, "mark_for_cancellation:with") ELSE Return(th)
    /\ UNCHANGED <<task_map, tasks_to_remove, tasks_to_cancel, lock, last_write>>

\* mark_for_cancellation, line 223
mark_for_cancellation_add(th) ==
    /\ At(th, "mark_for_cancellation:add")
    /\ tasks_to_cancel' = tasks_to_cancel \cup {threads[th].task_id}
    /\ last_write' = Write(th, "mark_for_cancellation")
    /\ lock' = None
    /\ Return(th)
    /\ UNCHANGED <<task_map, tasks_to_remove>>

LockFrame == UNCHANGED <<clock, uuid_count, entered, last_call, task_manager, restVars, thVars>>

LockNext ==
    \/ \E th \in Threads, call \in LockCalls : lock_call(th, call) /\ LockFrame
    \/ \E th \in Threads : lock_acquire(th) /\ LockFrame
    \/ \E th \in Threads : create_task_setdefault(th) /\ LockFrame
    \/ \E th \in Threads : remove_expired_task_loop(th) /\ LockFrame
    \/ \E th \in Threads : set_info_assign(th) /\ LockFrame
    \/ \E th \in Threads : set_info_bookkeeping(th) /\ LockFrame
    \/ \E th \in Threads : remove_task_pop(th) /\ LockFrame
    \/ \E th \in Threads : mark_for_cancellation_get_info(th) /\ LockFrame
    \/ \E th \in Threads : mark_for_cancellation_add(th) /\ LockFrame
    \/ Tick(HalfDay) /\ UNCHANGED <<restVars, thVars, ccVars>>

SpecTaskManagerLock == LockInit /\ [][LockNext]_vars

\* C25: every write to the task map, the cancellation set or the removal
\* set is made by a thread that holds the Task Manager's lock.
C25_WritesUnderLock == last_write # NoneRec => last_write.locked

(***************************************************************************)
(* handler.py: the one DataValueDeserializer of a RESTHandler under        *)
(* concurrent invokes.  generate_operation_input stores the request's      *)
(* mapping type in the instance, visit_map reads it back later.            *)
(***************************************************************************)
\* json values sent for a map-typed parameter
JsonMapValues == {"dict", "list"}
MappingTypes == {RestAnnotationType_NONE, RestAnnotationType_REQUEST, RestAnnotationType_VERB}

\* DataValueDeserializer.visit_map under the mapping type mapping_type
VisitMap(mapping_type, json_value) ==
    IF mapping_type = RestAnnotationType_VERB
    THEN IF json_value # "dict" THEN "BadRequest" ELSE "StructValue"
    ELSE IF json_value # "list" THEN "BadRequest" ELSE "ListValue"

DSInit ==
    /\ task_map = <<>>
    /\ tasks_to_remove = {}
    /\ tasks_to_cancel = {}
    /\ clock = 0
    /\ uuid_count = 0
    /\ entered = [t \in TaskIds |-> NoTime]
    /\ last_call = [op |-> "init"]
    /\ threads = [th \in Threads |-> Idle]
    /\ lock = None
    /\ last_write = NoneRec
    /\ task_manager = NoneRec
    /\ handle = NoneRec
    /\ event = FALSE
    /\ publish_call = [op |-> "init"]
    /\ handle_calls = 0
    /\ created_with = <<>>
    /\ service_map = <<>>
    /\ all_errors_response_code_map = <<>>
    /\ response_cookie_builder = NoneRec
    /\ rest_rules = {}
    /\ http_request = NoneRec
    /\ response = NoneRec
    /\ context = NoneRec
    /\ ds_mapping_type = "unset"
    /\ served = 0

\* RESTHandler._get_input_value: thread th calls generate_operation_input
\* of the shared deserializer for a request resolved to mapping_type
get_input_value(th, mapping_type, json_value) ==
    /\ At(th, "idle")
    /\ threads' = [threads EXCEPT ![th] =
                       [pc |-> "generate_operation_input:assign",
                        mapping_type |-> mapping_type, json_value |-> json_value]]
    /\ UNCHANGED ds_mapping_type

\* generate_operation_input, line 919: self.mapping_type = mapping_type
generate_operation_input_assign(th) ==
    /\ At(th, "generate_operation_input:assign")
    /\ ds_mapping_type' = threads[th].mapping_type
    /\ Goto(th, "generate_operation_input:visit")

\* generate_operation_input, lines 920-924: the visit of the map parameter
generate_operation_input_visit(th) ==
    /\ At(th, "generate_operation_input:visit")
    /\ threads' = [threads EXCEPT ![th] =
                       [pc |-> "generate_operation_input:return",
                        mapping_type |-> threads[th].mapping_type,
                        json_value |-> threads[th].json_value,
                        mode |-> ds_mapping_type,
                        input_value |-> VisitMap(ds_mapping_type, threads[th].json_value)]]
    /\ UNCHANGED ds_mapping_type

\* generate_operation_input returns (or raises) to invoke
generate_operation_input_return(th) ==
    /\ At(th, "generate_operation_input:return")
    /\ Return(th)
    /\ UNCHANGED ds_mapping_type

DSFrame == UNCHANGED <<tmVars, thVars, lock, last_write, task_manager, service_map, all_errors_response_code_map, response_cookie_builder, rest_rules, http_request, response, context, served>>

DSNext ==
    \/ \E th \in Threads, mapping_type \in MappingTypes, json_value \in JsonMapValues : get_input_value(th, mapping_type, json_value) /\ DSFrame
    \/ \E th \in Threads : generate_operation_input_assign(th) /\ DSFrame
    \/ \E th \in Threads : generate_operation_input_visit(th) /\ DSFrame
    \/ \E th \in Threads : generate_operation_input_return(th) /\ DSFrame

SpecDeserializer == DSInit /\ [][DSNext]_vars

\* C26: the input value built for a request is the one built when the
\* request runs alone: the map-encoding mode used by visit_map is the
\* mapping type of the request's own operation, under every interleaving.
C26_RequestIsolation ==
    \A th \in Threads :
        At(th, "generate_operation_input:return") =>
            /\ (threads[th].mode = RestAnnotationType_VERB) =
                   (threads[th].mapping_type = RestAnnotationType_VERB)
            /\ threads[th].input_value =
                   VisitMap(threads[th].mapping_type, threads[th].json_value)

\* a create_task call on a task id the task map already holds
CreateOverExisting ==
    /\ last_call'.op = "create_task"
    /\ last_call'.existed
    /\ last_call'.ret \in DOMAIN task_map

\* C27: create_task on a task id that is already in the task map returns
\* that id and leaves the stored task (info and error types) unchanged.
C27_CreateExistingKeeps ==
    [][CreateOverExisting =>
           /\ last_call'.ret \in DOMAIN task_map'
           /\ task_map'[last_call'.ret] = task_map[last_call'.ret]]_vars

\* C28: no dangling bookkeeping.  Every task id in the cancellation set and
\* every task id of a removal entry is a key of the task map, so that
\* is_marked_for_cancellation is false for an id that was removed.
C28_NoDanglingBookkeeping ==
    /\ \A task_id \in tasks_to_cancel : task_id \in DOMAIN task_map
    /\ \A entry \in tasks_to_remove : entry[1] \in DOMAIN task_map
    /\ \A task_id \in TaskIds :
           task_id \notin DOMAIN task_map =>
               ~IsMarkedForCancellation(tasks_to_cancel, task_id)

\* C29: the execution context is always cleared.  Once invoke has returned
\* or raised (a response is there), the thread holds no execution context,
\* whatever the exit path (a 400 or 500 while the input value is built
\* included).
C29_ContextCleared == response # NoneRec => context = NoneRec

(***************************************************************************)
(* task_manager_impl.py: the module global _task_manager.  Instances are   *)
(* numbered in the order they are constructed; NoneInt is None.            *)
(***************************************************************************)
MaxManagers == 3
Managers == 1..MaxManagers

GTInit ==
    /\ task_map = <<>>
    /\ tasks_to_remove = {}
    /\ tasks_to_cancel = {}
    /\ clock = 0
    /\ uuid_count = 0
    /\ entered = [t \in TaskIds |-> NoTime]
    /\ last_call = [op |-> "init"]
    /\ threads = [th \in Threads |-> Idle]
    /\ lock = None
    /\ last_write = NoneRec
    /\ task_manager = [global |-> NoneInt, constructed |-> 0, returned |-> {}, task_map |-> [m \in Managers |-> {}]]
    /\ handle = NoneRec
    /\ event = FALSE
    /\ publish_call = [op |-> "init"]
    /\ handle_calls = 0
    /\ created_with = <<>>
    /\ service_map = <<>>
    /\ all_errors_response_code_map = <<>>
    /\ response_cookie_builder = NoneRec
    /\ rest_rules = {}
    /\ http_request = NoneRec
    /\ response = NoneRec
    /\ context = NoneRec
    /\ ds_mapping_type = "unset"
    /\ served = 0

\* a thread calls get_task_manager() (TaskHandle.__init__ does)
get_task_manager_call(th) ==
    /\ At(th, "idle")
    /\ Goto(th, "get_task_manager:if")
    /\ UNCHANGED task_manager

\* get_task_manager, line 247: if _task_manager is None
get_task_manager_if(th) ==
    /\ At(th, "get_task_manager:if")
    /\ IF task_manager.global = NoneInt
       THEN Goto(th, "get_task_manager:assign")
       ELSE Goto(th, "get_task_manager:return")
    /\ UNCHANGED task_manager

\* get_task_manager, lines 248-251: _task_manager = TaskManagerImpl()
get_task_manager_assign(th) ==
    /\ At(th, "get_task_manager:assign")
    /\ task_manager.constructed < MaxManagers
    /\ task_manager' = [task_manager EXCEPT !.global = task_manager.constructed + 1,
                                            !.constructed = task_manager.constructed + 1]
    /\ Goto(th, "get_task_manager:return")

\* get_task_manager, line 253: return _task_manager
get_task_manager_return(th) ==
    /\ At(th, "get_task_manager:return")
    /\ task_manager' = [task_manager EXCEPT !.returned = task_manager.returned \cup {task_manager.global}]
    /\ threads' = [threads EXCEPT ![th] = [pc |-> "create_task", manager |-> task_manager.global]]

\* the caller creates a task through the manager it was given
manager_create_task(th) ==
    /\ At(th, "create_task")
    /\ task_manager' = [task_manager EXCEPT !.task_map[threads[th].manager] = task_manager.task_map[threads[th].manager] \cup {LockTaskId}]
    /\ Return(th)

\* delete_task_manager(), called while no get_task_manager call is running
delete_task_manager ==
    /\ \A th \in Threads : At(th, "idle")
    /\ task_manager.global # NoneInt
    /\ task_manager.constructed < MaxManagers
    /\ task_manager' = [task_manager EXCEPT !.global = NoneInt, !.returned = {}]
    /\ UNCHANGED threads

GTFrame == UNCHANGED <<tmVars, restVars, thVars, lock, last_write>>

GTNext ==
    \/ \E th \in Threads : get_task_manager_call(th) /\ GTFrame
    \/ \E th \in Threads : get_task_manager_if(th) /\ GTFrame
    \/ \E th \in Threads : get_task_manager_assign(th) /\ GTFrame
    \/ \E th \in Threads : get_task_manager_return(th) /\ GTFrame
    \/ \E th \in Threads : manager_create_task(th) /\ GTFrame
    \/ delete_task_manager /\ GTFrame

SpecGetTaskManager == GTInit /\ [][GTNext]_vars

\* C30: one task manager per process.  The get_task_manager calls made
\* since the last delete_task_manager all returned the same instance, and a
\* task created through one returned manager is in every returned manager.
C30_OneTaskManager ==
    /\ Cardinality(task_manager.returned) <= 1
    /\ \A m1, m2 \in task_manager.returned :
           task_manager.task_map[m1] = task_manager.task_map[m2]

====
